---- MODULE Spec2Model ----
(***************************************************************************)
(* A model of the distributed ID allocator of pkg/kvstore/allocator:       *)
(* Allocate / lockedAllocate, Release, RunGC, the cache watcher and the    *)
(* lease of the slave keys, over a key-value store whose keys are paths.   *)
(*                                                                         *)
(* Strings are sequences of tokens.  A token is one character ("a", "/",   *)
(* a decimal digit) or an opaque word that contains no "/" ("id", "value", *)
(* "locks", a node suffix).                                                *)
(***************************************************************************)
EXTENDS Integers, Sequences, FiniteSets, TLC

\* ------------------------------------------------------------------ bounds

\* WithMax of the allocators of the main specifications.
MaxID == 2
\* Allocate calls one caller starts.
MaxOps == 2
\* The largest WithMin / WithMax NewAllocator is called with.
MaxNewID == 2
\* Master keys deleted from outside the allocators.
MaxExtDeletes == 1
\* RunGC rounds the garbage collector starts.
MaxGCRounds == 2
\* Allocate calls one caller starts where RunGC runs beside the callers.
MaxGCOps == 1
\* kvstore calls that fail.
MaxFaults == 1
\* kvstore calls that fail where one failure leaves a master key behind and
\* another one meets RunGC.
MaxGCFaults == 2
\* Master keys of another key the local key sync writes over.
MaxOverwrites == 1

\* --------------------------------------------------------- program constants

maxAllocAttempts == 16
NoID == 0
MinID == 1
PrefixMask == 0
\* a prefix mask set with WithPrefixMask: a bit above every ID of the pool
HighBitMask == 4
\* max of the allocator of the exhaustion scenario (min=1, max=3).
ExhaustMax == 3

\* ------------------------------------------------------------------ universe

Nodes == {"n1", "n2"}
NoNode == "none"
AllProcs == {"p1", "p2", "p3"}
NoProc == "nobody"
GCProc == "gc"
NodeOf(p) == IF p = "p2" THEN "n2" ELSE "n1"
\* one caller on each participant
Callers == {"p1", "p2"}

\* application keys, by their GetKey() string; KeyA is a proper prefix of KeyAB
KeyA == <<"a">>
KeyAB == <<"a", "b">>
KeyC == <<"c">>
KeyD == <<"d">>
AllKeys == {KeyA, KeyAB, KeyC, KeyD}
NoKey == <<>>

ErrNone == "nil"
ErrExhausted == "no more available IDs in configured space"
ErrOtherWriter == "another writer has allocated this key"
ErrMaster == "unable to create master key"
ErrSlave == "unable to create slave key"
ErrSlaveNew == "slave key creation failed"
ErrNotFound == "unable to find key in local cache"
ErrNoClient == "kvstore client not configured"
ErrSuffix == "allocator suffix is <nil> and unlikely unique"
ErrMin == "minimum ID must be >= 1"
ErrMax == "maximum ID must be greater than minimum ID"
ErrAllocWait ==
  "allocation was cancelled while waiting for initial key list to be received"
ErrReleaseWait ==
  "release was cancelled while waiting for initial key list to be received"
ErrCancelled == "key allocation cancelled"
ErrList == "list failed"

\* ------------------------------------------------------------------ strings

Max2(a, b) == IF a > b THEN a ELSE b

IsPrefix(p, s) == Len(p) <= Len(s) /\ SubSeq(s, 1, Len(p)) = p

\* strings.LastIndex(s, "/"): the 0-based index of the last "/", -1 if none
LastIndex(s) ==
  LET at == {i \in 1..Len(s) : s[i] = "/"}
  IN  IF at = {} THEN -1 ELSE (CHOOSE i \in at : \A j \in at : j <= i) - 1

\* strings.TrimPrefix
TrimPrefix(s, p) == IF IsPrefix(p, s) THEN SubSeq(s, Len(p) + 1, Len(s)) ELSE s

\* path.Join of two elements (both non-empty, no doubled slashes to clean
\* except the one a leading "/" of the second element would give)
Join(a, b) == IF b # <<>> /\ b[1] = "/" THEN a \o b ELSE a \o <<"/">> \o b

Digit == <<"0", "1", "2", "3", "4", "5", "6", "7", "8", "9">>

\* idpool.ID.String / strconv.FormatUint(id, 10)
RECURSIVE FormatUint(_)
FormatUint(i) ==
  IF i < 10 THEN <<Digit[i + 1]>> ELSE FormatUint(i \div 10) \o <<Digit[(i % 10) + 1]>>

IsDigit(c) == \E d \in 1..10 : Digit[d] = c
DigitVal(c) == (CHOOSE d \in 1..10 : Digit[d] = c) - 1

\* strconv.ParseUint(s, 10, 64): <<ok, value>>
RECURSIVE ParseAcc(_, _)
ParseAcc(s, acc) ==
  IF s = <<>> THEN acc ELSE ParseAcc(Tail(s), acc * 10 + DigitVal(Head(s)))
ParseUint(s) ==
  IF s # <<>> /\ \A i \in 1..Len(s) : IsDigit(s[i])
    THEN <<TRUE, ParseAcc(s, 0)>> ELSE <<FALSE, 0>>

\* bitwise OR of two naturals
RECURSIVE BitOr(_, _)
BitOr(a, b) ==
  IF a = 0 THEN b
  ELSE IF b = 0 THEN a
  ELSE 2 * BitOr(a \div 2, b \div 2) + (IF (a % 2) + (b % 2) > 0 THEN 1 ELSE 0)

\* ------------------------------------------------------------------ key space

basePrefix == <<"b">>
idPrefix == Join(basePrefix, <<"id">>)
valuePrefix == Join(basePrefix, <<"value">>)
lockPrefix == Join(basePrefix, <<"locks">>)

\* basePrefix/id/<N>
IdPath(id) == Join(idPrefix, FormatUint(id))
\* basePrefix/value/<key>/<suffix>
ValueKey(k, suffix) == Join(Join(valuePrefix, k), <<suffix>>)
\* path.Base
Base(p) == SubSeq(p, LastIndex(p) + 2, Len(p))

\* the path Allocator.lockPath locks for `key`
lockPath(key) == Join(lockPrefix, TrimPrefix(key, basePrefix))

\* strings.Index(s, "/"): the 0-based index of the first "/", -1 if none
FirstIndex(s) ==
  LET at == {i \in 1..Len(s) : s[i] = "/"}
  IN  IF at = {} THEN -1 ELSE (CHOOSE i \in at : \A j \in at : i <= j) - 1

\* prefixMatchesKey as it would be without the comparison
prefixMatchesKeyAlways(prefix, key) == TRUE

\* prefixMatchesKey as it would be with the first "/" taken for the last
prefixMatchesKeyFirstSlash(prefix, key) == Len(prefix) = FirstIndex(key)

prefixMatchesKey(prefix, key) == Len(prefix) = LastIndex(key)

\* ------------------------------------------------------------------ maps

MapPut(f, x, v) == [y \in (DOMAIN f) \cup {x} |-> IF y = x THEN v ELSE f[y]]
MapDel(f, x) == [y \in (DOMAIN f) \ {x} |-> f[y]]
EmptyMap == [y \in {} |-> 0]

\* ------------------------------------------------------------------ state

VARIABLES
  kv,         \* the store: path |-> [data, modRev, lease]
  events,     \* the watch stream of the id prefix, in order
  dlock,      \* distributed locks: lock path |-> holder
  localKeys,  \* node |-> (key string |-> [val, refcnt, verified])
  pool,       \* node |-> [free, leased, inuse]: the node's idPool
  cache,      \* node |-> [keyCache, idCache, seen, listDone]: mainCache
  mutex,      \* node |-> holder of slaveKeysMutex
  alive,      \* node |-> "up", "crashed" (lease not renewed), "expired"
  proc,       \* caller |-> its position in Allocate / Release and its locals
  gc,         \* the garbage collector's position in RunGC and its locals
  faults,     \* kvstore calls that have failed so far
  hist,       \* history: what the callers were handed, what RunGC did
  cfg,        \* the configuration the allocators were constructed with
  policy,     \* proxylib: the installed port policies and the last match
  observer    \* node store: the NodeObserver, its manager and the ipcache

vars == <<kv, events, dlock, localKeys, pool, cache, mutex, alive, proc, gc,
          faults, hist, cfg, policy, observer>>

\* ------------------------------------------------------------------ kvstore

Exists(path) == path \in DOMAIN kv

\* ListPrefix / ListPrefixIfLocked: the paths that start with `prefix`
ListPrefixIn(store, prefix) == {path \in DOMAIN store : IsPrefix(prefix, path)}
ListPrefix(prefix) == ListPrefixIn(kv, prefix)

\* The modification revision a write gets.  Only revisions of master keys
\* are ever compared, and only for equality with an earlier reading of the
\* same key, so the revision counts the writes under the id prefix.
KvPut(path, data, lease) ==
  IF IsPrefix(idPrefix, path)
    THEN /\ events' = Append(events,
                [typ |-> IF Exists(path) THEN "modify" ELSE "create",
                 key |-> path, data |-> data])
         /\ kv' = MapPut(kv, path,
                [data |-> data, modRev |-> Len(events) + 1, lease |-> lease])
    ELSE /\ events' = events
         /\ kv' = MapPut(kv, path, [data |-> data, modRev |-> 0, lease |-> lease])

KvDelete(path) ==
  IF Exists(path)
    THEN /\ kv' = MapDel(kv, path)
         /\ events' = IF IsPrefix(idPrefix, path)
                        THEN Append(events,
                               [typ |-> "delete", key |-> path, data |-> <<>>])
                        ELSE events
    ELSE UNCHANGED <<kv, events>>

\* The same writes on a store value st = [kv, events], for the callers that
\* make more than one write in a step.
PutIn(st, path, data, lease) ==
  IF IsPrefix(idPrefix, path)
    THEN [kv |-> MapPut(st.kv, path,
                   [data |-> data, modRev |-> Len(st.events) + 1, lease |-> lease]),
          events |-> Append(st.events,
                   [typ |-> IF path \in DOMAIN st.kv THEN "modify" ELSE "create",
                    key |-> path, data |-> data])]
    ELSE [kv |-> MapPut(st.kv, path, [data |-> data, modRev |-> 0, lease |-> lease]),
          events |-> st.events]

\* CreateOnly: write the key unless it exists
CreateOnlyIn(st, path, data, lease) ==
  IF path \in DOMAIN st.kv THEN st ELSE PutIn(st, path, data, lease)

\* UpdateIfDifferent: write the key unless it exists with this value
UpdateIfDifferentIn(st, path, data, lease) ==
  IF path \in DOMAIN st.kv /\ st.kv[path].data = data
    THEN st ELSE PutIn(st, path, data, lease)

\* the outcomes a kvstore call can have: TRUE, or FALSE for an error of the
\* transport, while the configuration still allows one
Outcomes == IF faults < cfg.maxFaults THEN {TRUE, FALSE} ELSE {TRUE}
Charge(ok) == faults' = IF ok THEN faults ELSE faults + 1

\* ------------------------------------------------------------------ idpool

NewIDPool(min, max) == [free |-> min..max, leased |-> {}, inuse |-> {}]
PoolLease(pl, id) == [pl EXCEPT !.free = @ \ {id}, !.leased = @ \cup {id}]
PoolUse(pl, id) ==
  IF id \in pl.leased
    THEN [pl EXCEPT !.leased = @ \ {id}, !.inuse = @ \cup {id}] ELSE pl
PoolRelease(pl, id) ==
  IF id \in pl.leased \cup pl.inuse
    THEN [pl EXCEPT !.leased = @ \ {id}, !.inuse = @ \ {id}, !.free = @ \cup {id}]
    ELSE pl
PoolRemove(pl, id) == [pl EXCEPT !.free = @ \ {id}, !.leased = @ \ {id}]
PoolInsert(pl, id) ==
  IF id \in pl.leased
    THEN pl ELSE [pl EXCEPT !.free = @ \cup {id}, !.inuse = @ \ {id}]

\* ------------------------------------------------------------------ localKeys

lookupKey(lk, k) == IF k \in DOMAIN lk THEN lk[k].val ELSE NoID
lkUse(lk, k) == [lk EXCEPT ![k].refcnt = @ + 1]
\* allocate(k, id): insert, or take one more reference on the existing entry
lkAllocate(lk, k, id) ==
  IF k \in DOMAIN lk THEN [lk EXCEPT ![k].refcnt = @ + 1]
  ELSE MapPut(lk, k, [val |-> id, refcnt |-> 1, verified |-> FALSE])
lkRelease(lk, k) ==
  IF k \notin DOMAIN lk THEN lk
  ELSE IF lk[k].refcnt = 1 THEN MapDel(lk, k)
  ELSE [lk EXCEPT ![k].refcnt = @ - 1]
lkLastUse(lk, k) == k \in DOMAIN lk /\ lk[k].refcnt = 1
\* the keys the table holds ID id for
lookupID(lk, id) == {k \in DOMAIN lk : lk[k].val = id}
\* getVerifiedIDs: the keys whose slave key was written
getVerifiedIDs(lk) == {k \in DOMAIN lk : lk[k].verified}
lkVerify(lk, k) == IF k \in DOMAIN lk THEN [lk EXCEPT ![k].verified = TRUE] ELSE lk

\* ------------------------------------------------------------------ cache

cacheGet(c, k) == IF k \in DOMAIN c.keyCache THEN c.keyCache[k] ELSE NoID
cacheInsert(c, k, id) ==
  [c EXCEPT !.keyCache = MapPut(@, k, id), !.idCache = MapPut(@, id, k)]
cacheOnUpsert(c, id, k) == cacheInsert(c, k, id)
cacheOnDelete(c, id) ==
  IF id \in DOMAIN c.idCache
    THEN [c EXCEPT !.keyCache = MapDel(@, c.idCache[id]), !.idCache = MapDel(@, id)]
    ELSE c

\* ------------------------------------------------------------------ Init

NoRet == [op |-> "none", key |-> NoKey, id |-> NoID, isNew |-> FALSE,
          err |-> ErrNone, lastUse |-> FALSE]
IdleProc == [pc |-> "idle", key |-> NoKey, value |-> NoID, id |-> NoID,
             unmaskedID |-> NoID, isNew |-> FALSE, attempt |-> 0, ops |-> 0,
             fresh |-> FALSE, late |-> FALSE, recreated |-> FALSE,
             err |-> ErrNone, ret |-> NoRet]
IdleGC == [pc |-> "idle", round |-> 0, prev |-> EmptyMap, stale |-> EmptyMap,
           allocated |-> EmptyMap, key |-> <<>>, hasUsers |-> FALSE,
           skipped |-> {}, err |-> ErrNone]
NoHist == [rets |-> {}, rels |-> {}, news |-> {}, ext |-> 0, over |-> 0,
           leaked |-> {}, held |-> [p \in AllProcs |-> EmptyMap],
           first |-> [p \in AllProcs |-> EmptyMap],
           creator |-> EmptyMap, quiet |-> EmptyMap, clean |-> EmptyMap]

\* the pool as it would be with an exclusive upper bound taken as inclusive
idPoolPastMax(c) == NewIDPool(c.min, c.max + 1)

\* NewAllocator: a.idPool = idpool.NewIDPool(a.min, a.max)
idPool(c) == NewIDPool(c.min, c.max)

\* no port policy installed, no node event observed
NoPolicy == [config |-> <<>>, installed |-> <<>>, loaded |-> FALSE,
             rejected |-> FALSE, asked |-> <<>>, verdict |-> FALSE]

\* the nodes of the cluster the node store reports events for; the observer
\* keeps nothing that relates two nodes, so one node shows all it can do
ClusterNodes == {"k1"}

\* NewNodeObserver: no event handled, no deletion pending; the manager holds
\* no node and the ipcache no entry
NoObserver == [now |-> 0, manager |-> {}, ipcache |-> {}, routines |-> {},
               handler |-> <<>>, events |-> 0, encryptNode |-> FALSE,
               lastEvent |-> [k \in ClusterNodes |-> "none"],
               deleted |-> {}]

\* The state after NewAllocator on every node, against an empty store.
AllocatorInit(c) ==
  /\ cfg = c
  /\ kv = EmptyMap
  /\ events = <<>>
  /\ dlock = EmptyMap
  /\ localKeys = [n \in Nodes |-> EmptyMap]
  /\ pool = [n \in Nodes |-> idPool(c)]
  /\ cache = [n \in Nodes |-> [keyCache |-> EmptyMap, idCache |-> EmptyMap,
                               seen |-> 0, listDone |-> FALSE]]
  /\ mutex = [n \in Nodes |-> NoProc]
  /\ alive = [n \in Nodes |-> "up"]
  /\ proc = [p \in AllProcs |-> IdleProc]
  /\ gc = IdleGC
  /\ faults = 0
  /\ hist = NoHist

\* ... with no port policy and no node event
InitWith(c) ==
  /\ AllocatorInit(c)
  /\ policy = NoPolicy
  /\ observer = NoObserver

\* ------------------------------------------------------------------ history

\* the key strings some master key currently maps an ID to
MasterPaths == ListPrefix(idPrefix)
SlavePathsIn(store, k) ==
  {path \in ListPrefixIn(store, Join(valuePrefix, k)) :
     prefixMatchesKey(Join(valuePrefix, k), path)}
SlavePathsOf(k) == SlavePathsIn(kv, k)

Held(p, k) == IF k \in DOMAIN hist.held[p] THEN hist.held[p][k] ELSE 0

\* whether the store holds no record of key k: no master key with that value
\* and no slave key of it
NoRecord(k) ==
  /\ \A m \in MasterPaths : kv[m].data # k
  /\ SlavePathsOf(k) = {}

\* when the call began a participant's lease had expired, RunGC had
\* collected a master key of k, and the store had no record of k
Reclaimed(k) ==
  /\ \E n \in Nodes : alive[n] = "expired"
  /\ \E m \in DOMAIN hist.quiet : hist.quiet[m].key = k /\ hist.quiet[m].n = 2
  /\ NoRecord(k)

\* the ID of the first Allocate(k) of the references caller p holds
FirstID(p, k, id) == IF Held(p, k) > 0 THEN hist.first[p][k] ELSE id

\* a successful Allocate hands (id, isNew) to caller p
HistAllocated(h, p, k, id, isNew, fresh, late) ==
  [h EXCEPT !.rets = @ \cup {[proc |-> p, key |-> k, id |-> id, isNew |-> isNew,
                              fresh |-> fresh, late |-> late, n |-> Held(p, k) + 1,
                              first |-> FirstID(p, k, id)]},
            !.held[p] = MapPut(@, k, Held(p, k) + 1),
            !.first[p] = MapPut(@, k, FirstID(p, k, id))]
\* caller p created the master key `path`
HistCreated(h, p, path) == [h EXCEPT !.creator = MapPut(@, path, p)]
\* the references the callers of node n hold on key k
RECURSIVE SumHeld(_, _)
SumHeld(S, k) ==
  IF S = {} THEN 0
  ELSE LET p == CHOOSE x \in S : TRUE IN Held(p, k) + SumHeld(S \ {p}, k)
HeldOn(n, k) == SumHeld({p \in AllProcs : NodeOf(p) = n}, k)

\* Release(k) returned lastUse to caller p; `local` references were held on
\* its node before the call, and `others`: another participant held k
HistReleased(h, p, k, lastUse) ==
  [h EXCEPT !.held[p] = IF Held(p, k) <= 1 THEN MapDel(@, k)
                        ELSE MapPut(@, k, Held(p, k) - 1),
            !.first[p] = IF Held(p, k) <= 1 THEN MapDel(@, k) ELSE @,
            !.rels = @ \cup {[proc |-> p, key |-> k, lastUse |-> lastUse,
                              local |-> HeldOn(NodeOf(p), k),
                              others |-> \E q \in AllProcs :
                                           NodeOf(q) # NodeOf(p) /\ Held(q, k) > 0]}]


\* Is the master key m, last seen holding key string k, disturbed by the step:
\* written, given a user, or the subject of a running or starting Allocate?
Disturbed(m, k, touched) ==
  \/ touched = k
  \/ m \in DOMAIN kv' /\ (m \notin DOMAIN kv \/ kv'[m] # kv[m])
  \/ SlavePathsIn(kv', k) # {}
  \/ \E p \in AllProcs :
       proc'[p].pc # "idle" /\ proc'[p].key = k /\ alive'[NodeOf(p)] = "up"

\* The history after a step that left it as h: master keys that were
\* disturbed are no longer counted as unused since the round began.
\* (Conjoined last in every action: it reads the next state.)
Track(h, touched) ==
  [h EXCEPT
     !.clean = [m \in {x \in DOMAIN @ : ~Disturbed(x, @[x], touched)} |-> @[m]],
     !.quiet = [m \in {x \in DOMAIN @ : ~Disturbed(x, @[x].key, touched)} |-> @[m]]]

\* ------------------------------------------------------------------ Allocate

Ret(op, k, id, isNew, err, lastUse) ==
  [op |-> op, key |-> k, id |-> id, isNew |-> isNew, err |-> err, lastUse |-> lastUse]

\* the caller is back in its own code with the call's result
Returned(p, ret) == [IdleProc EXCEPT !.ops = proc[p].ops, !.ret = ret]

\* one attempt of the retry loop of Allocate failed with err: back at the
\* head of the loop with attempt++ (the loop ends there after
\* maxAllocAttempts)
Failed(p, err) ==
  [proc[p] EXCEPT !.pc = "lock", !.attempt = @ + 1, !.value = NoID,
                  !.id = NoID, !.unmaskedID = NoID, !.isNew = FALSE,
                  !.recreated = FALSE, !.err = err]

\* the loop condition as it would be with no bound on the attempts
attemptsLeftAlways(attempt) == TRUE

\* Allocate's loop condition: attempt < maxAllocAttempts
attemptsLeft(attempt) == attempt < maxAllocAttempts

\* the deferred Unlock as it would be if it were left out
UnlockedNever(p) == dlock

\* lockedAllocate returns: the deferred lock.Unlock()
Unlocked(p) == MapDel(dlock, lockPath(proc[p].key))

\* the wait as it would be if the initial list were always there
initialListDoneAlways(n) == TRUE

\* the select of Allocate and Release: a.initialListDone is closed
initialListDone(n) == cache[n].listDone

\* the local fast path as it would be if it were never taken
localUseNever(n, k) == NoID

\* the ID localKeys.use(k) answers the fast path of Allocate with
localUse(n, k) == lookupKey(localKeys[n], k)

\* Allocate up to the retry loop: the wait for the initial list, and the
\* local fast path
Allocate(p, k) ==
  LET n == NodeOf(p) IN
  /\ p \in cfg.procs /\ k \in cfg.keys
  /\ proc[p].pc = "idle" /\ proc[p].ops < cfg.maxOps
  /\ alive[n] = "up" /\ initialListDone(n)
  /\ IF localUse(n, k) # NoID
       THEN LET val == localUse(n, k) IN
            /\ localKeys' = [localKeys EXCEPT ![n] = lkUse(@, k)]
            /\ cache' = [cache EXCEPT ![n] = cacheInsert(@, k, val)]
            /\ proc' = [proc EXCEPT ![p] =
                 [Returned(p, Ret("Allocate", k, val, FALSE, ErrNone, FALSE))
                    EXCEPT !.ops = @ + 1]]
            /\ UNCHANGED <<kv, events, dlock, pool, mutex, alive, gc, faults, cfg, policy, observer>>
            /\ hist' = Track(HistAllocated(hist, p, k, val, FALSE, FALSE,
                                                Reclaimed(k)), k)
       ELSE /\ proc' = [proc EXCEPT ![p] =
                 [IdleProc EXCEPT !.pc = "lock", !.key = k, !.ops = proc[p].ops + 1,
                                  !.late = Reclaimed(k), !.ret = proc[p].ret]]
            /\ UNCHANGED <<kv, events, dlock, localKeys, pool, cache, mutex, alive,
                           gc, faults, cfg, policy, observer>>
            /\ hist' = Track(hist, k)

\* Allocate whose select takes ctx.Done(): the context was cancelled before
\* the initial list arrived, or both cases were ready
AllocateCancelled(p, k) ==
  /\ cfg.cancel
  /\ p \in cfg.procs /\ k \in cfg.keys
  /\ proc[p].pc = "idle" /\ proc[p].ops < cfg.maxOps
  /\ alive[NodeOf(p)] = "up"
  /\ proc' = [proc EXCEPT ![p] =
       [Returned(p, Ret("Allocate", k, NoID, FALSE, ErrAllocWait, FALSE))
          EXCEPT !.ops = @ + 1]]
  /\ UNCHANGED <<kv, events, dlock, localKeys, pool, cache, mutex, alive, gc,
                 faults, cfg, policy, observer>>
  /\ hist' = Track(hist, NoKey)

\* the retry loop after a failed attempt: ctx.Done() is ready and Allocate
\* returns instead of trying again (boff.Wait returns the same way)
AllocCancel(p) ==
  /\ cfg.cancel
  /\ proc[p].pc = "lock" /\ proc[p].attempt > 0
  /\ alive[NodeOf(p)] = "up"
  /\ proc' = [proc EXCEPT ![p] =
       Returned(p, Ret("Allocate", proc[p].key, NoID, FALSE, ErrCancelled, FALSE))]
  /\ UNCHANGED <<kv, events, dlock, localKeys, pool, cache, mutex, alive, gc,
                 faults, cfg, policy, observer>>
  /\ hist' = Track(hist, NoKey)

\* Allocate's loop head, then lockedAllocate: lockPath and GetIfLocked's
\* look into the cache
AllocLock(p) ==
  LET n == NodeOf(p)
      k == proc[p].key
  IN
  /\ proc[p].pc = "lock" /\ alive[n] = "up"
  /\ IF attemptsLeft(proc[p].attempt)
       THEN \E ok \in Outcomes :
              /\ Charge(ok)
              /\ IF ok
                   THEN /\ lockPath(k) \notin DOMAIN dlock
                        /\ dlock' = MapPut(dlock, lockPath(k), p)
                        /\ proc' = [proc EXCEPT ![p].value = cacheGet(cache[n], k),
                                      ![p].fresh = NoRecord(k),
                                      ![p].pc = IF cacheGet(cache[n], k) # NoID
                                                  THEN "reserve" ELSE "list"]
                   ELSE /\ dlock' = dlock
                        /\ proc' = [proc EXCEPT ![p] = Failed(p, "lock")]
       ELSE \* the loop is over: return 0, false, err
            /\ proc' = [proc EXCEPT ![p] =
                 Returned(p, Ret("Allocate", k, NoID, FALSE, proc[p].err, FALSE))]
            /\ UNCHANGED <<dlock, faults>>
  /\ UNCHANGED <<kv, events, localKeys, pool, cache, mutex, alive, gc, cfg, policy, observer>>
  /\ hist' = Track(hist, k)

\* the IDs GetNoCache / GetNoCacheIfLocked can return for key string k: the
\* ID of any listed pair that matches the prefix and parses (the pairs are
\* ranged over in map order), NoID when there is none
GetNoCache(k) ==
  LET prefix == Join(valuePrefix, k)
      found == {ParseUint(kv[path].data)[2] :
                  path \in {q \in ListPrefix(prefix) :
                              /\ prefixMatchesKey(prefix, q)
                              /\ ParseUint(kv[q].data)[1]}}
  IN  IF found = {} THEN {NoID} ELSE found

\* Get: the cache, then GetNoCache
Get(n, k) ==
  IF cacheGet(cache[n], k) # NoID THEN {cacheGet(cache[n], k)} ELSE GetNoCache(k)

\* lockedAllocate: GetIfLocked's GetNoCacheIfLocked
AllocList(p) ==
  LET n == NodeOf(p)
      k == proc[p].key
  IN
  /\ proc[p].pc = "list" /\ alive[n] = "up"
  /\ \E ok \in Outcomes :
       /\ Charge(ok)
       /\ IF ok
            THEN /\ \E v \in GetNoCache(k) :
                      proc' = [proc EXCEPT ![p].value = v, ![p].pc = "reserve"]
                 /\ dlock' = dlock
            ELSE /\ proc' = [proc EXCEPT ![p] = Failed(p, "list")]
                 /\ dlock' = Unlocked(p)
  /\ UNCHANGED <<kv, events, localKeys, pool, cache, mutex, alive, gc, cfg, policy, observer>>
  /\ hist' = Track(hist, k)

\* selectAvailableID as it would be with the masked ID returned in both places
selectAvailableIDMasked(n) ==
  {<<BitOr(u, cfg.prefixMask), BitOr(u, cfg.prefixMask)>> : u \in pool[n].free}

\* selectAvailableID: <<id, unmaskedID>> for every ID the pool can lease
selectAvailableID(n) ==
  {<<BitOr(u, cfg.prefixMask), u>> : u \in pool[n].free}

\* lockedAllocate from slaveKeysMutex.Lock() to its next kvstore call
AllocReserve(p) ==
  LET n == NodeOf(p)
      k == proc[p].key
      lk == localKeys[n]
  IN
  /\ proc[p].pc = "reserve" /\ alive[n] = "up"
  /\ mutex[n] = NoProc
  /\ IF proc[p].value = NoID
       THEN IF lookupKey(lk, k) # NoID
              THEN \* the store lost the key, the local table still holds it
                   /\ proc' = [proc EXCEPT ![p].value = lookupKey(lk, k),
                                           ![p].pc = "recreate"]
                   /\ mutex' = [mutex EXCEPT ![n] = p]
                   /\ UNCHANGED <<localKeys, pool, dlock>>
              ELSE IF selectAvailableID(n) = {}
                     THEN /\ proc' = [proc EXCEPT ![p] = Failed(p, ErrExhausted)]
                          /\ dlock' = Unlocked(p)
                          /\ UNCHANGED <<localKeys, pool, mutex>>
                     ELSE \E sel \in selectAvailableID(n) :
                            LET id == sel[1]
                                unmaskedID == sel[2]
                                oldID == IF k \in DOMAIN lk THEN lk[k].val ELSE id
                            IN
                            IF id # oldID
                              THEN \* releaseKeyAndID
                                   /\ localKeys' = [localKeys EXCEPT ![n] =
                                                      lkRelease(lkAllocate(lk, k, id), k)]
                                   /\ pool' = [pool EXCEPT ![n] =
                                        PoolRelease(PoolLease(@, unmaskedID), unmaskedID)]
                                   /\ proc' = [proc EXCEPT ![p] = Failed(p, ErrOtherWriter)]
                                   /\ dlock' = Unlocked(p)
                                   /\ mutex' = mutex
                              ELSE /\ localKeys' = [localKeys EXCEPT ![n] =
                                                      lkAllocate(lk, k, id)]
                                   /\ pool' = [pool EXCEPT ![n] = PoolLease(@, unmaskedID)]
                                   /\ proc' = [proc EXCEPT ![p].id = id,
                                                 ![p].unmaskedID = unmaskedID,
                                                 ![p].pc = "master"]
                                   /\ mutex' = [mutex EXCEPT ![n] = p]
                                   /\ dlock' = dlock
       ELSE /\ localKeys' = [localKeys EXCEPT ![n] = lkAllocate(lk, k, proc[p].value)]
            /\ proc' = [proc EXCEPT ![p].pc = "slave"]
            /\ mutex' = [mutex EXCEPT ![n] = p]
            /\ UNCHANGED <<pool, dlock>>
  /\ UNCHANGED <<kv, events, cache, alive, gc, faults, cfg, policy, observer>>
  /\ hist' = Track(hist, k)


\* the test as it would be with the master key written over an existing one
masterRecreatedAlways(ok, keyPath) == ok

\* lockedAllocate's test of the CreateOnlyIfLocked that re-creates the
\* master key: no error, and success
masterRecreated(ok, keyPath) == ok /\ ~Exists(keyPath)

\* lockedAllocate, value == 0 and the key still held locally: re-create the
\* master key with CreateOnlyIfLocked
AllocRecreate(p) ==
  LET n == NodeOf(p)
      k == proc[p].key
      keyPath == Join(idPrefix, FormatUint(proc[p].value))
  IN
  /\ proc[p].pc = "recreate" /\ alive[n] = "up"
  /\ \E ok \in Outcomes :
       /\ Charge(ok)
       /\ IF masterRecreated(ok, keyPath)
            THEN /\ KvPut(keyPath, k, NoNode)
                 /\ proc' = [proc EXCEPT ![p].pc = "slave", ![p].recreated = TRUE]
                 /\ UNCHANGED <<dlock, mutex>>
            ELSE /\ UNCHANGED <<kv, events>>
                 /\ proc' = [proc EXCEPT ![p] = Failed(p, ErrMaster)]
                 /\ dlock' = Unlocked(p)
                 /\ mutex' = [mutex EXCEPT ![n] = NoProc]
  /\ UNCHANGED <<localKeys, pool, cache, alive, gc, cfg, policy, observer>>
  /\ hist' = Track(hist, k)

\* the test as it would be with the `success` result ignored
masterCreatedIgnoringSuccess(ok, keyPath) == ok

\* lockedAllocate's test of CreateOnlyIfLocked: no error, and success
masterCreated(ok, keyPath) == ok /\ ~Exists(keyPath)

\* the return as it would be with `true` returned for a reused ID too
AllocResultAlwaysNew(p) ==
  Ret("Allocate", proc[p].key, IF proc[p].isNew THEN proc[p].id ELSE proc[p].value,
      TRUE, ErrNone, FALSE)

\* what a successful lockedAllocate returns: (value, false) for an ID that
\* existed, (id, true) for the one it created
AllocResult(p) ==
  Ret("Allocate", proc[p].key, IF proc[p].isNew THEN proc[p].id ELSE proc[p].value,
      proc[p].isNew, ErrNone, FALSE)

\* the closure as it would be if it released the local key only
releaseKeyOnly(n, k, unmaskedID) ==
  /\ localKeys' = [localKeys EXCEPT ![n] = lkRelease(@, k)]
  /\ pool' = pool

\* lockedAllocate's closure releaseKeyAndID
releaseKeyAndID(n, k, unmaskedID) ==
  /\ localKeys' = [localKeys EXCEPT ![n] = lkRelease(@, k)]
  /\ pool' = [pool EXCEPT ![n] = PoolRelease(@, unmaskedID)]

\* lockedAllocate, new ID: create /id/<ID> and fail if it already exists;
\* on success the pool is told that the leased ID is in use
AllocMaster(p) ==
  LET n == NodeOf(p)
      k == proc[p].key
      keyPath == Join(idPrefix, FormatUint(proc[p].id))
  IN
  /\ proc[p].pc = "master" /\ alive[n] = "up"
  /\ UNCHANGED <<cache, alive, gc, cfg, policy, observer>>
  /\ \E ok \in Outcomes :
       /\ Charge(ok)
       /\ IF masterCreated(ok, keyPath)
            THEN /\ KvPut(keyPath, k, NoNode)
                 /\ pool' = [pool EXCEPT ![n] = PoolUse(@, proc[p].unmaskedID)]
                 /\ proc' = [proc EXCEPT ![p].pc = "slave", ![p].isNew = TRUE]
                 /\ UNCHANGED <<localKeys, dlock, mutex>>
                 /\ hist' = Track(HistCreated(hist, p, keyPath), k)
            ELSE \* releaseKeyAndID
                 /\ UNCHANGED <<kv, events>>
                 /\ releaseKeyAndID(n, k, proc[p].unmaskedID)
                 /\ proc' = [proc EXCEPT ![p] = Failed(p, ErrMaster)]
                 /\ dlock' = Unlocked(p)
                 /\ mutex' = [mutex EXCEPT ![n] = NoProc]
                 /\ hist' = Track(hist, k)

\* the lease createValueNodeKey attaches the slave key of node n to
SlaveLease(n) == n

\* createValueNodeKey's UpdateIfDifferentIfLocked of /value/<key>/<node>
createValueNodeKey(n, k, newID) ==
  LET valueKey == Join(Join(valuePrefix, k), <<n>>)
      data == FormatUint(newID)
  IN  IF Exists(valueKey) /\ kv[valueKey].data = data
        THEN UNCHANGED <<kv, events>>
        ELSE KvPut(valueKey, data, SlaveLease(n))

\* the release as it would be with the leased ID kept after a failed slave
\* key of a new ID
slaveFailedKeepsID(n, k, isNew, unmaskedID) ==
  /\ localKeys' = [localKeys EXCEPT ![n] = lkRelease(@, k)]
  /\ pool' = pool

\* lockedAllocate, createValueNodeKey failed: localKeys.release(k) for an ID
\* that existed, releaseKeyAndID() for the one just created
slaveFailed(n, k, isNew, unmaskedID) ==
  IF isNew THEN releaseKeyAndID(n, k, unmaskedID)
  ELSE /\ localKeys' = [localKeys EXCEPT ![n] = lkRelease(@, k)]
       /\ pool' = pool

\* lockedAllocate: createValueNodeKey and the return; Allocate's insert into
\* the cache after a successful attempt
AllocSlave(p) ==
  LET n == NodeOf(p)
      k == proc[p].key
      newID == IF proc[p].isNew THEN proc[p].id ELSE proc[p].value
  IN
  /\ proc[p].pc = "slave" /\ alive[n] = "up"
  /\ UNCHANGED <<alive, gc, cfg, policy, observer>>
  /\ \E ok \in Outcomes :
       /\ Charge(ok)
       /\ IF ok
            THEN /\ createValueNodeKey(n, k, newID)
                 /\ localKeys' = [localKeys EXCEPT ![n] = lkVerify(@, k)]
                 /\ pool' = pool
                 /\ cache' = [cache EXCEPT ![n] = cacheInsert(@, k, AllocResult(p).id)]
                 /\ proc' = [proc EXCEPT ![p] =
                      [Returned(p, AllocResult(p)) EXCEPT
                         !.recreated = proc[p].recreated]]
                 /\ dlock' = Unlocked(p)
                 /\ mutex' = [mutex EXCEPT ![n] = NoProc]
                 /\ hist' = Track(HistAllocated(hist, p, k, AllocResult(p).id,
                                                AllocResult(p).isNew, proc[p].fresh,
                                                proc[p].late), k)
            ELSE \* the master key of a new ID is left in the store
                 /\ UNCHANGED <<kv, events, cache>>
                 /\ slaveFailed(n, k, proc[p].isNew, proc[p].unmaskedID)
                 /\ proc' = [proc EXCEPT ![p] =
                      Failed(p, IF proc[p].isNew THEN ErrSlaveNew ELSE ErrSlave)]
                 /\ dlock' = Unlocked(p)
                 /\ mutex' = [mutex EXCEPT ![n] = NoProc]
                 /\ hist' = Track([hist EXCEPT !.leaked =
                       IF proc[p].isNew THEN @ \cup {IdPath(proc[p].id)} ELSE @], k)

\* ------------------------------------------------------------------ watcher

\* the nodes an allocator was constructed on
Participants == {NodeOf(p) : p \in cfg.procs}

\* the initial list of the (empty) id prefix is complete
WatchListDone(n) ==
  /\ n \in Participants
  /\ alive[n] = "up" /\ ~cache[n].listDone
  /\ cache' = [cache EXCEPT ![n].listDone = TRUE]
  /\ UNCHANGED <<kv, events, dlock, localKeys, pool, mutex, alive, proc, gc,
                 faults, cfg, policy, observer>>
  /\ hist' = Track(hist, NoKey)

\* recreateMasterKey as it would be with the slave key re-created only
recreateMasterKeyOnlySlave(st, n, id, value, reliablyMissing) ==
  LET valueKey == ValueKey(value, n) IN
  IF reliablyMissing
    THEN CreateOnlyIn(st, valueKey, FormatUint(id), SlaveLease(n))
    ELSE UpdateIfDifferentIn(st, valueKey, FormatUint(id), SlaveLease(n))

\* recreateMasterKey on node n: the store after the master key of id and
\* the node's slave key of `value` were re-created
recreateMasterKey(st, n, id, value, reliablyMissing) ==
  LET keyPath == IdPath(id)
      valueKey == ValueKey(value, n)
      master == IF reliablyMissing
                  THEN CreateOnlyIn(st, keyPath, value, NoNode)
                  ELSE UpdateIfDifferentIn(st, keyPath, value, NoNode)
  IN  IF reliablyMissing
        THEN CreateOnlyIn(master, valueKey, FormatUint(id), SlaveLease(n))
        ELSE UpdateIfDifferentIn(master, valueKey, FormatUint(id), SlaveLease(n))

\* master-key protection: the key a delete event of id is answered for
protectedKey(n, id) ==
  IF cfg.protect THEN lookupID(localKeys[n], id) ELSE {}

\* the cache's watcher takes the next event of the id prefix; with
\* master-key protection a delete event of an ID in local use re-creates
\* the master key before the next event is taken
WatchDeliver(n) ==
  /\ n \in Participants
  /\ alive[n] = "up" /\ cache[n].seen < Len(events)
  /\ LET e == events[cache[n].seen + 1]
         parsed == ParseUint(Base(e.key))
         id == parsed[2]
         seen == [cache[n] EXCEPT !.seen = @ + 1]
         now == [kv |-> kv, events |-> events]
     IN  IF ~parsed[1]
           THEN cache' = [cache EXCEPT ![n] = seen] /\ pool' = pool
                /\ UNCHANGED <<kv, events>>
         ELSE IF e.typ = "delete"
           THEN /\ cache' = [cache EXCEPT ![n] = cacheOnDelete(seen, id)]
                /\ pool' = [pool EXCEPT ![n] = PoolInsert(@, id)]
                /\ LET held == protectedKey(n, id)
                       st == IF held = {} THEN now
                             ELSE recreateMasterKey(now, n, id,
                                                    CHOOSE k \in held : TRUE, TRUE)
                   IN  kv' = st.kv /\ events' = st.events
           ELSE /\ cache' = [cache EXCEPT ![n] = cacheOnUpsert(seen, id, e.data)]
                /\ pool' = [pool EXCEPT ![n] = PoolRemove(@, id)]
                /\ UNCHANGED <<kv, events>>
  /\ UNCHANGED <<dlock, localKeys, mutex, alive, proc, gc, faults, cfg, policy, observer>>
  /\ hist' = Track(hist, NoKey)

\* the sync of node n for key k finds the master key of its ID holding
\* another key
Overwrites(n, k) ==
  /\ Exists(IdPath(localKeys[n][k].val))
  /\ kv[IdPath(localKeys[n][k].val)].data # k

\* syncLocalKeys, for one verified local key: its master key and slave key
\* are written again where they differ
SyncLocalKeys(n, k) ==
  /\ n \in Participants /\ cfg.sync
  /\ alive[n] = "up" /\ cache[n].listDone
  /\ k \in getVerifiedIDs(localKeys[n])
  /\ Overwrites(n, k) => hist.over < MaxOverwrites
  /\ LET st == recreateMasterKey([kv |-> kv, events |-> events], n,
                                 localKeys[n][k].val, k, FALSE)
     IN  /\ st.kv # kv
         /\ kv' = st.kv /\ events' = st.events
  /\ UNCHANGED <<dlock, localKeys, pool, cache, mutex, alive, proc, gc, faults, cfg, policy, observer>>
  /\ hist' = Track([hist EXCEPT !.over = IF Overwrites(n, k) THEN @ + 1 ELSE @], k)

\* a master key is deleted from outside the allocators
ExternalDelete(m) ==
  /\ hist.ext < cfg.maxExt
  /\ m \in MasterPaths
  /\ KvDelete(m)
  /\ UNCHANGED <<dlock, localKeys, pool, cache, mutex, alive, proc, gc, faults, cfg, policy, observer>>
  /\ hist' = Track([hist EXCEPT !.ext = @ + 1], NoKey)

\* a slave key is deleted from outside the allocators
ExternalDeleteSlave(s) ==
  /\ hist.ext < cfg.maxExt
  /\ s \in DOMAIN kv /\ IsPrefix(valuePrefix, s)
  /\ KvDelete(s)
  /\ UNCHANGED <<dlock, localKeys, pool, cache, mutex, alive, proc, gc, faults, cfg, policy, observer>>
  /\ hist' = Track([hist EXCEPT !.ext = @ + 1], NoKey)

\* ------------------------------------------------------------------ Release

\* the test as it would be with the slave key deleted on every release
releaseDeletesAlways(lastUse) == TRUE

\* Release deletes the slave key only on the last local use
releaseDeletes(lastUse) == lastUse

\* the path as it would be without the node suffix
releaseValueKeyNoSuffix(n, k) == {Join(valuePrefix, k)}

\* Release as it would be with the prefix of the key deleted
releaseValueKeyPrefix(n, k) == ListPrefix(Join(valuePrefix, k))

\* what Release removes from the store: the node's own slave key of k
releaseValueKey(n, k) == {Join(Join(valuePrefix, k), <<n>>)}

Release(p, k) ==
  LET n == NodeOf(p)
      lk == localKeys[n]
      lastUse == lkLastUse(lk, k)
      err == IF k \in DOMAIN lk THEN ErrNone ELSE ErrNotFound
  IN
  /\ p \in cfg.procs /\ k \in cfg.keys
  /\ proc[p].pc = "idle"
  /\ Held(p, k) > 0
  /\ alive[n] = "up" /\ initialListDone(n)
  /\ mutex[n] = NoProc
  /\ localKeys' = [localKeys EXCEPT ![n] = lkRelease(@, k)]
  /\ IF err = ErrNone /\ releaseDeletes(lastUse)
       THEN \E ok \in Outcomes :
              /\ Charge(ok)
              /\ IF ok
                   THEN /\ kv' = [path \in (DOMAIN kv) \ releaseValueKey(n, k) |-> kv[path]]
                        /\ events' = events
                   ELSE UNCHANGED <<kv, events>>
       ELSE UNCHANGED <<kv, events, faults>>
  /\ proc' = [proc EXCEPT ![p] =
       Returned(p, Ret("Release", k, NoID, FALSE, err, lastUse))]
  /\ UNCHANGED <<dlock, pool, cache, mutex, alive, gc, cfg, policy, observer>>
  /\ hist' = Track(HistReleased(hist, p, k, lastUse), NoKey)

\* Release whose select takes ctx.Done()
ReleaseCancelled(p, k) ==
  /\ cfg.cancel
  /\ p \in cfg.procs /\ k \in cfg.keys
  /\ proc[p].pc = "idle"
  /\ alive[NodeOf(p)] = "up"
  /\ proc' = [proc EXCEPT ![p] =
       Returned(p, Ret("Release", k, NoID, FALSE, ErrReleaseWait, FALSE))]
  /\ UNCHANGED <<kv, events, dlock, localKeys, pool, cache, mutex, alive, gc,
                 faults, cfg, policy, observer>>
  /\ hist' = Track(hist, NoKey)

\* ------------------------------------------------------------------ RunGC

\* RunGC: the list of all /id/ keys
GCList ==
  /\ gc.pc = "idle" /\ gc.round < cfg.gcRounds
  /\ UNCHANGED <<kv, events, dlock, localKeys, pool, cache, mutex, alive, proc, cfg, policy, observer>>
  /\ \E ok \in Outcomes :
       /\ Charge(ok)
       /\ IF ok
            THEN /\ gc' = [gc EXCEPT !.pc = "lock", !.round = @ + 1,
                             !.allocated = [m \in ListPrefix(idPrefix) |-> kv[m]],
                             !.stale = EmptyMap, !.skipped = {},
                             !.err = ErrNone]
                 /\ hist' = Track([hist EXCEPT !.clean =
                       [m \in {x \in ListPrefix(idPrefix) :
                                 /\ SlavePathsOf(kv[x].data) = {}
                                 /\ \A p \in AllProcs :
                                      proc[p].pc = "idle" \/ proc[p].key # kv[x].data
                                        \/ alive[NodeOf(p)] # "up"}
                          |-> kv[m].data]], NoKey)
            ELSE /\ gc' = [gc EXCEPT !.round = @ + 1, !.skipped = {},
                             !.err = ErrList]
                 /\ hist' = Track([hist EXCEPT !.clean = EmptyMap, !.quiet = EmptyMap],
                                  NoKey)

\* a round that skips a master key after a failure has not passed over it
\* (it reads the next state of gc)
HistSkipped(h) ==
  [h EXCEPT !.clean = [m \in DOMAIN @ \ (gc'.skipped \ gc.skipped) |-> @[m]]]

\* the failure of a kvstore call as it would be if it ended the round
gcAbort(key) ==
  [gc EXCEPT !.pc = "lock", !.key = <<>>, !.allocated = EmptyMap,
             !.skipped = @ \cup {key}]

\* RunGC: a kvstore call failed for a master key; the warning and on to the
\* next master key
gcContinue(key) ==
  [gc EXCEPT !.pc = "lock", !.key = <<>>, !.allocated = MapDel(@, key),
             !.skipped = @ \cup {key}]

\* RunGC, an iteration over /id/: lockPath of the master key
GCLock ==
  /\ gc.pc = "lock"
  /\ \E key \in DOMAIN gc.allocated :
       \E ok \in Outcomes :
         /\ Charge(ok)
         /\ IF ok
              THEN /\ lockPath(key) \notin DOMAIN dlock
                   /\ dlock' = MapPut(dlock, lockPath(key), GCProc)
                   /\ gc' = [gc EXCEPT !.pc = "scan", !.key = key]
              ELSE /\ dlock' = dlock
                   /\ gc' = gcContinue(key)
  /\ UNCHANGED <<kv, events, localKeys, pool, cache, mutex, alive, proc, cfg, policy, observer>>
  /\ hist' = Track(HistSkipped(hist), NoKey)

\* the test as it would be if no listed pair counted as a user
gcHasUsersNever(valueKeyPrefix, pairs) == FALSE

\* RunGC: does any listed pair belong to the key?
gcHasUsers(valueKeyPrefix, pairs) ==
  \E k \in pairs : prefixMatchesKey(valueKeyPrefix, k)

\* the test as it would be with the stale map looked up by the ID
gcMarkedByID(prev, key, modRevision) ==
  Base(key) \in DOMAIN prev /\ prev[Base(key)] = modRevision

\* RunGC: only delete if the key was marked in the previous round with the
\* revision it still has
gcMarked(prev, key, modRevision) == key \in DOMAIN prev /\ prev[key] = modRevision

\* RunGC: the list of all /value/<key> keys, and what follows it up to the
\* next kvstore call
GCScan ==
  LET key == gc.key
      v == gc.allocated[key]
      valueKeyPrefix == Join(valuePrefix, v.data)
      pairs == ListPrefix(valueKeyPrefix)
      next == [gc EXCEPT !.pc = "lock", !.key = <<>>, !.allocated = MapDel(@, key)]
  IN
  /\ gc.pc = "scan"
  /\ \E ok \in Outcomes :
       /\ Charge(ok)
       /\ IF ~ok
            THEN /\ gc' = gcContinue(key)
                 /\ dlock' = MapDel(dlock, lockPath(key))
            ELSE IF gcHasUsers(valueKeyPrefix, pairs)
            THEN /\ gc' = next
                 /\ dlock' = MapDel(dlock, lockPath(key))
            ELSE IF gcMarked(gc.prev, key, v.modRev)
              THEN /\ gc' = [gc EXCEPT !.pc = "delete"]
                   /\ dlock' = dlock
              ELSE /\ gc' = [next EXCEPT !.stale = MapPut(@, key, v.modRev)]
                   /\ dlock' = MapDel(dlock, lockPath(key))
  /\ UNCHANGED <<kv, events, localKeys, pool, cache, mutex, alive, proc, cfg, policy, observer>>
  /\ hist' = Track(HistSkipped(hist), NoKey)

\* RunGC: DeleteIfLocked of the unused master key, and the unlock
GCDelete ==
  LET key == gc.key IN
  /\ gc.pc = "delete"
  /\ \E ok \in Outcomes :
       /\ Charge(ok)
       /\ IF ok
            THEN /\ KvDelete(key)
                 /\ gc' = [gc EXCEPT !.pc = "lock", !.key = <<>>,
                                     !.allocated = MapDel(@, key)]
            ELSE /\ UNCHANGED <<kv, events>>
                 /\ gc' = gcContinue(key)
  /\ dlock' = MapDel(dlock, lockPath(key))
  /\ UNCHANGED <<localKeys, pool, cache, mutex, alive, proc, cfg, policy, observer>>
  /\ hist' = Track(HistSkipped(hist), NoKey)

\* RunGC returns staleKeys, which the caller hands to the next round
GCReturn ==
  /\ gc.pc = "lock" /\ DOMAIN gc.allocated = {}
  /\ gc' = [gc EXCEPT !.pc = "idle", !.prev = gc.stale, !.stale = EmptyMap]
  /\ UNCHANGED <<kv, events, dlock, localKeys, pool, cache, mutex, alive, proc,
                 faults, cfg, policy, observer>>
  /\ hist' = Track([hist EXCEPT
       !.clean = EmptyMap,
       !.quiet = [m \in DOMAIN hist.clean |->
                    [key |-> hist.clean[m],
                     n |-> IF m \in DOMAIN hist.quiet /\ hist.quiet[m].n >= 1
                             THEN 2 ELSE 1]]], NoKey)

\* ------------------------------------------------------------------ lease

\* a participant dies: it takes no further step and stops renewing its lease
Crash(n) ==
  /\ n \in cfg.crash /\ alive[n] = "up"
  /\ alive' = [alive EXCEPT ![n] = "crashed"]
  /\ UNCHANGED <<kv, events, dlock, localKeys, pool, cache, mutex, proc, gc,
                 faults, cfg, policy, observer>>
  /\ hist' = Track(hist, NoKey)

\* the lease TTL of a dead participant passes: the store deletes every key
\* attached to its lease, its locks among them
LeaseExpire(n) ==
  /\ alive[n] = "crashed"
  /\ alive' = [alive EXCEPT ![n] = "expired"]
  /\ kv' = [path \in {q \in DOMAIN kv : kv[q].lease # n} |-> kv[path]]
  /\ events' = events
  /\ dlock' = [l \in {x \in DOMAIN dlock :
                        dlock[x] = GCProc \/ NodeOf(dlock[x]) # n} |-> dlock[l]]
  /\ UNCHANGED <<localKeys, pool, cache, mutex, proc, gc, faults, cfg, policy, observer>>
  /\ hist' = Track(hist, NoKey)

\* ------------------------------------------------------------------ NewAllocator

\* the suffix an allocator gets from a nil value formatted into WithSuffix
NilSuffix == "<nil>"

\* the checks as they would be with a range of one ID accepted
newAllocatorErrorMaxBelowMin(client, min, max, suffix) ==
  IF ~client THEN ErrNoClient
  ELSE IF suffix = NilSuffix THEN ErrSuffix
  ELSE IF min < 1 THEN ErrMin
  ELSE IF max < min THEN ErrMax
  ELSE ErrNone

\* the checks as they would be with a minimum of NoID accepted
newAllocatorErrorMinBelowZero(client, min, max, suffix) ==
  IF ~client THEN ErrNoClient
  ELSE IF suffix = NilSuffix THEN ErrSuffix
  ELSE IF min < 0 THEN ErrMin
  ELSE IF max <= min THEN ErrMax
  ELSE ErrNone

\* NewAllocator's checks, in the order of the code: the error it returns
newAllocatorError(client, min, max, suffix) ==
  IF ~client THEN ErrNoClient
  ELSE IF suffix = NilSuffix THEN ErrSuffix
  ELSE IF min < 1 THEN ErrMin
  ELSE IF max <= min THEN ErrMax
  ELSE ErrNone

\* NewAllocator(WithMin(min), WithMax(max), WithSuffix(suffix)) on the node
\* of caller p, with the kvstore client configured or not.  On an error no
\* allocator is returned and mainCache.start is not reached.
NewAllocator(p, client, min, max, suffix) ==
  LET n == NodeOf(p)
      err == newAllocatorError(client, min, max, suffix)
      c == [cfg EXCEPT !.procs = @ \cup {p}, !.min = min, !.max = max]
  IN
  /\ p \notin cfg.procs /\ proc[p].pc = "idle"
  /\ suffix \in {n, NilSuffix}
  /\ IF err = ErrNone
       THEN /\ cfg' = c
            /\ pool' = [pool EXCEPT ![n] = idPool(c)]
       ELSE UNCHANGED <<cfg, pool>>
  /\ proc' = [proc EXCEPT ![p] =
                Returned(p, Ret("NewAllocator", NoKey, NoID, FALSE, err, FALSE))]
  /\ UNCHANGED <<kv, events, dlock, localKeys, cache, mutex, alive, gc, faults,
                 policy, observer>>
  /\ hist' = Track([hist EXCEPT !.news = {r \in @ : err = ErrNone \/ r.err = ErrNone} \cup
                     {[proc |-> p, client |-> client, min |-> min, max |-> max,
                       suffix |-> suffix, err |-> err]}], NoKey)

\* ------------------------------------------------------------------ Allocate only

CfgAlloc ==
  [procs |-> Callers, keys |-> {KeyA, KeyAB}, min |-> MinID, max |-> MaxID,
   prefixMask |-> PrefixMask, maxOps |-> MaxOps, maxFaults |-> 0,
   gcRounds |-> 0, crash |-> {}, protect |-> FALSE, sync |-> FALSE, maxExt |-> 0,
   cancel |-> FALSE]

InitAlloc == InitWith(CfgAlloc)

NextAlloc ==
  \/ \E p \in AllProcs, k \in AllKeys : Allocate(p, k)
  \/ \E p \in AllProcs : AllocLock(p)
  \/ \E p \in AllProcs : AllocList(p)
  \/ \E p \in AllProcs : AllocReserve(p)
  \/ \E p \in AllProcs : AllocMaster(p)
  \/ \E p \in AllProcs : AllocSlave(p)
  \/ \E n \in Nodes : WatchListDone(n)
  \/ \E n \in Nodes : WatchDeliver(n)

SpecAlloc == InitAlloc /\ [][NextAlloc]_vars

\* ------------------------------------------------------------------ Allocate and Release

CfgRelease == [CfgAlloc EXCEPT !.keys = {KeyA}]

InitRelease == InitWith(CfgRelease)

NextRelease ==
  \/ \E p \in AllProcs, k \in AllKeys : Allocate(p, k)
  \/ \E p \in AllProcs : AllocLock(p)
  \/ \E p \in AllProcs : AllocList(p)
  \/ \E p \in AllProcs : AllocReserve(p)
  \/ \E p \in AllProcs : AllocMaster(p)
  \/ \E p \in AllProcs : AllocSlave(p)
  \/ \E p \in AllProcs, k \in AllKeys : Release(p, k)
  \/ \E n \in Nodes : WatchListDone(n)
  \/ \E n \in Nodes : WatchDeliver(n)

SpecRelease == InitRelease /\ [][NextRelease]_vars

\* ------------------------------------------------------------------ with RunGC

CfgMain ==
  [procs |-> Callers, keys |-> {KeyA}, min |-> MinID, max |-> MaxID,
   prefixMask |-> PrefixMask, maxOps |-> MaxGCOps, maxFaults |-> 0,
   gcRounds |-> MaxGCRounds, crash |-> {}, protect |-> FALSE, sync |-> FALSE,
   maxExt |-> 0, cancel |-> FALSE]

Init == InitWith(CfgMain)

Next ==
  \/ \E p \in AllProcs, k \in AllKeys : Allocate(p, k)
  \/ \E p \in AllProcs : AllocLock(p)
  \/ \E p \in AllProcs : AllocList(p)
  \/ \E p \in AllProcs : AllocReserve(p)
  \/ \E p \in AllProcs : AllocMaster(p)
  \/ \E p \in AllProcs : AllocSlave(p)
  \/ \E p \in AllProcs, k \in AllKeys : Release(p, k)
  \/ \E n \in Nodes : WatchListDone(n)
  \/ \E n \in Nodes : WatchDeliver(n)
  \/ GCList
  \/ GCLock
  \/ GCScan
  \/ GCDelete
  \/ GCReturn

Spec == Init /\ [][Next]_vars

\* ------------------------------------------------------------------ with a crash

\* participant n1 may die; no caller releases what it holds
CfgCrash == [CfgMain EXCEPT !.crash = {"n1"}]

InitCrash == InitWith(CfgCrash)

NextCrash ==
  \/ \E p \in AllProcs, k \in AllKeys : Allocate(p, k)
  \/ \E p \in AllProcs : AllocLock(p)
  \/ \E p \in AllProcs : AllocList(p)
  \/ \E p \in AllProcs : AllocReserve(p)
  \/ \E p \in AllProcs : AllocMaster(p)
  \/ \E p \in AllProcs : AllocSlave(p)
  \/ \E n \in Nodes : WatchListDone(n)
  \/ \E n \in Nodes : WatchDeliver(n)
  \/ GCList
  \/ GCLock
  \/ GCScan
  \/ GCDelete
  \/ GCReturn
  \/ \E n \in Nodes : Crash(n)
  \/ \E n \in Nodes : LeaseExpire(n)

SpecCrash == InitCrash /\ [][NextCrash]_vars

\* ------------------------------------------------------------------ exhaustion

\* one participant, min=1 and max=3, four distinct keys
CfgExhaust ==
  [procs |-> {"p1"}, keys |-> AllKeys, min |-> MinID, max |-> ExhaustMax,
   prefixMask |-> PrefixMask, maxOps |-> Cardinality(AllKeys), maxFaults |-> 0,
   gcRounds |-> 0, crash |-> {}, protect |-> FALSE, sync |-> FALSE, maxExt |-> 0,
   cancel |-> FALSE]

InitExhaust == InitWith(CfgExhaust)

NextExhaust ==
  \/ \E p \in AllProcs, k \in AllKeys : Allocate(p, k)
  \/ \E p \in AllProcs : AllocLock(p)
  \/ \E p \in AllProcs : AllocList(p)
  \/ \E p \in AllProcs : AllocReserve(p)
  \/ \E p \in AllProcs : AllocMaster(p)
  \/ \E p \in AllProcs : AllocSlave(p)
  \/ \E n \in Nodes : WatchListDone(n)
  \/ \E n \in Nodes : WatchDeliver(n)

SpecExhaust == InitExhaust /\ [][NextExhaust]_vars

\* the kvstore loses the records of a key: its master key m and its slave
\* keys
DataLoss(m) ==
  /\ hist.ext < cfg.maxExt
  /\ m \in MasterPaths
  /\ kv' = [path \in (DOMAIN kv) \ ({m} \cup SlavePathsOf(kv[m].data)) |-> kv[path]]
  /\ events' = Append(events, [typ |-> "delete", key |-> m, data |-> <<>>])
  /\ UNCHANGED <<dlock, localKeys, pool, cache, mutex, alive, proc, gc, faults, cfg, policy, observer>>
  /\ hist' = Track([hist EXCEPT !.ext = @ + 1], NoKey)

\* ------------------------------------------------------------------ protection

\* Allocators with master-key protection and the local key sync, beside
\* deletions of master keys from outside.
CfgProtect ==
  [CfgAlloc EXCEPT !.keys = {KeyA}, !.maxOps = MaxGCOps, !.protect = TRUE,
                   !.sync = TRUE, !.maxExt = MaxExtDeletes]

InitProtect == InitWith(CfgProtect)

NextProtect ==
  \/ \E p \in AllProcs, k \in AllKeys : Allocate(p, k)
  \/ \E p \in AllProcs : AllocLock(p)
  \/ \E p \in AllProcs : AllocList(p)
  \/ \E p \in AllProcs : AllocReserve(p)
  \/ \E p \in AllProcs : AllocMaster(p)
  \/ \E p \in AllProcs : AllocSlave(p)
  \/ \E p \in AllProcs, k \in AllKeys : Release(p, k)
  \/ \E n \in Nodes : WatchListDone(n)
  \/ \E n \in Nodes : WatchDeliver(n)
  \/ \E n \in Nodes, k \in AllKeys : SyncLocalKeys(n, k)
  \/ \E m \in DOMAIN kv : ExternalDelete(m)

SpecProtect == InitProtect /\ [][NextProtect]_vars

\* ------------------------------------------------------------------ failures

\* Callers whose context may be cancelled while they wait for the initial
\* list.
CfgCancel == [CfgMain EXCEPT !.gcRounds = 0, !.cancel = TRUE]

InitCancel == InitWith(CfgCancel)

NextCancel ==
  \/ \E p \in AllProcs, k \in AllKeys : Allocate(p, k)
  \/ \E p \in AllProcs, k \in AllKeys : AllocateCancelled(p, k)
  \/ \E p \in AllProcs : AllocLock(p)
  \/ \E p \in AllProcs : AllocList(p)
  \/ \E p \in AllProcs : AllocReserve(p)
  \/ \E p \in AllProcs : AllocMaster(p)
  \/ \E p \in AllProcs : AllocSlave(p)
  \/ \E p \in AllProcs, k \in AllKeys : Release(p, k)
  \/ \E p \in AllProcs, k \in AllKeys : ReleaseCancelled(p, k)
  \/ \E n \in Nodes : WatchListDone(n)
  \/ \E n \in Nodes : WatchDeliver(n)

SpecCancel == InitCancel /\ [][NextCancel]_vars

\* One participant on a kvstore whose calls may fail, its context cancelled
\* between attempts, and RunGC beside it.
CfgFault ==
  [CfgMain EXCEPT !.procs = {"p1"}, !.maxOps = MaxOps, !.maxFaults = MaxFaults,
                  !.cancel = TRUE]

InitFault == InitWith(CfgFault)

NextFault ==
  \/ \E p \in AllProcs, k \in AllKeys : Allocate(p, k)
  \/ \E p \in AllProcs : AllocCancel(p)
  \/ \E p \in AllProcs : AllocLock(p)
  \/ \E p \in AllProcs : AllocList(p)
  \/ \E p \in AllProcs : AllocReserve(p)
  \/ \E p \in AllProcs : AllocMaster(p)
  \/ \E p \in AllProcs : AllocSlave(p)
  \/ \E n \in Nodes : WatchListDone(n)
  \/ \E n \in Nodes : WatchDeliver(n)
  \/ GCList
  \/ GCLock
  \/ GCScan
  \/ GCDelete
  \/ GCReturn

SpecFault == InitFault /\ [][NextFault]_vars

\* One participant on a kvstore whose calls may fail, RunGC beside it, and
\* deletions of master keys from outside between the rounds.
CfgGC == [CfgFault EXCEPT !.maxExt = MaxExtDeletes]

InitGC == InitWith(CfgGC)

NextGC ==
  \/ \E p \in AllProcs, k \in AllKeys : Allocate(p, k)
  \/ \E p \in AllProcs : AllocCancel(p)
  \/ \E p \in AllProcs : AllocLock(p)
  \/ \E p \in AllProcs : AllocList(p)
  \/ \E p \in AllProcs : AllocReserve(p)
  \/ \E p \in AllProcs : AllocMaster(p)
  \/ \E p \in AllProcs : AllocSlave(p)
  \/ \E n \in Nodes : WatchListDone(n)
  \/ \E n \in Nodes : WatchDeliver(n)
  \/ \E m \in DOMAIN kv : ExternalDelete(m)
  \/ GCList
  \/ GCLock
  \/ GCScan
  \/ GCDelete
  \/ GCReturn

SpecGC == InitGC /\ [][NextGC]_vars

\* One Allocate of one participant and RunGC, on a kvstore of which two
\* calls may fail.
CfgSkip ==
  [CfgFault EXCEPT !.maxOps = MaxGCOps, !.maxFaults = MaxGCFaults, !.cancel = FALSE]

InitSkip == InitWith(CfgSkip)

NextSkip ==
  \/ \E p \in AllProcs, k \in AllKeys : Allocate(p, k)
  \/ \E p \in AllProcs : AllocLock(p)
  \/ \E p \in AllProcs : AllocList(p)
  \/ \E p \in AllProcs : AllocReserve(p)
  \/ \E p \in AllProcs : AllocMaster(p)
  \/ \E p \in AllProcs : AllocSlave(p)
  \/ \E n \in Nodes : WatchListDone(n)
  \/ \E n \in Nodes : WatchDeliver(n)
  \/ GCList
  \/ GCLock
  \/ GCScan
  \/ GCDelete
  \/ GCReturn

SpecSkip == InitSkip /\ [][NextSkip]_vars

\* Two participants with a prefix mask and one Allocate each, on a kvstore
\* of which one call may fail.
CfgMask ==
  [CfgAlloc EXCEPT !.keys = {KeyA}, !.prefixMask = HighBitMask,
                   !.maxOps = MaxGCOps, !.maxFaults = MaxFaults]

InitMask == InitWith(CfgMask)

NextMask ==
  \/ \E p \in AllProcs, k \in AllKeys : Allocate(p, k)
  \/ \E p \in AllProcs : AllocLock(p)
  \/ \E p \in AllProcs : AllocList(p)
  \/ \E p \in AllProcs : AllocReserve(p)
  \/ \E p \in AllProcs : AllocMaster(p)
  \/ \E p \in AllProcs : AllocSlave(p)
  \/ \E n \in Nodes : WatchListDone(n)
  \/ \E n \in Nodes : WatchDeliver(n)

SpecMask == InitMask /\ [][NextMask]_vars

\* Two callers of one participant with one Allocate each, on a kvstore of
\* which one call may fail, their context cancelled between attempts; every
\* caller that can take a step eventually takes one.
CfgRetry ==
  [CfgMain EXCEPT !.procs = {"p1", "p3"}, !.gcRounds = 0, !.maxFaults = MaxFaults,
                  !.cancel = TRUE]

InitRetry == InitWith(CfgRetry)

\* a step of the Allocate call of p
AllocStep(p) ==
  \/ AllocCancel(p)
  \/ AllocLock(p)
  \/ AllocList(p)
  \/ AllocReserve(p)
  \/ AllocMaster(p)
  \/ AllocSlave(p)

NextRetry ==
  \/ \E p \in AllProcs, k \in AllKeys : Allocate(p, k)
  \/ \E p \in AllProcs : AllocCancel(p)
  \/ \E p \in AllProcs : AllocLock(p)
  \/ \E p \in AllProcs : AllocList(p)
  \/ \E p \in AllProcs : AllocReserve(p)
  \/ \E p \in AllProcs : AllocMaster(p)
  \/ \E p \in AllProcs : AllocSlave(p)
  \/ \E n \in Nodes : WatchListDone(n)
  \/ \E n \in Nodes : WatchDeliver(n)

SpecRetry ==
  InitRetry /\ [][NextRetry]_vars /\ \A p \in AllProcs : WF_vars(AllocStep(p))

\* Two keys under master-key protection and the local key sync, beside
\* deletions of master keys from outside; no caller releases.
CfgSync == [CfgProtect EXCEPT !.keys = {KeyA, KeyC}]

InitSync == InitWith(CfgSync)

NextSync ==
  \/ \E p \in AllProcs, k \in AllKeys : Allocate(p, k)
  \/ \E p \in AllProcs : AllocLock(p)
  \/ \E p \in AllProcs : AllocList(p)
  \/ \E p \in AllProcs : AllocReserve(p)
  \/ \E p \in AllProcs : AllocMaster(p)
  \/ \E p \in AllProcs : AllocSlave(p)
  \/ \E n \in Nodes : WatchListDone(n)
  \/ \E n \in Nodes : WatchDeliver(n)
  \/ \E n \in Nodes, k \in AllKeys : SyncLocalKeys(n, k)
  \/ \E m \in DOMAIN kv : ExternalDelete(m)

SpecSync == InitSync /\ [][NextSync]_vars

\* ------------------------------------------------------------------ healing

\* Two participants with the local key sync, beside deletions of master
\* keys and of slave keys from outside; the sync goroutine of every
\* participant runs again and again.
CfgHeal ==
  [CfgMain EXCEPT !.gcRounds = 0, !.sync = TRUE, !.maxExt = MaxExtDeletes]

InitHeal == InitWith(CfgHeal)

NextHeal ==
  \/ \E p \in AllProcs, k \in AllKeys : Allocate(p, k)
  \/ \E p \in AllProcs : AllocLock(p)
  \/ \E p \in AllProcs : AllocList(p)
  \/ \E p \in AllProcs : AllocReserve(p)
  \/ \E p \in AllProcs : AllocMaster(p)
  \/ \E p \in AllProcs : AllocSlave(p)
  \/ \E p \in AllProcs, k \in AllKeys : Release(p, k)
  \/ \E n \in Nodes : WatchListDone(n)
  \/ \E n \in Nodes : WatchDeliver(n)
  \/ \E n \in Nodes, k \in AllKeys : SyncLocalKeys(n, k)
  \/ \E m \in DOMAIN kv : ExternalDelete(m)
  \/ \E s \in DOMAIN kv : ExternalDeleteSlave(s)

SpecHeal ==
  /\ InitHeal /\ [][NextHeal]_vars
  /\ \A n \in Nodes : WF_vars(WatchListDone(n))
  /\ \A n \in Nodes, k \in AllKeys : WF_vars(SyncLocalKeys(n, k))

\* ------------------------------------------------------------------ locking

\* Two callers of one participant, two keys, releases and RunGC beside
\* them: the lock of a key and the mutex can both be contended.
CfgLocks ==
  [CfgMain EXCEPT !.procs = {"p1", "p3"}, !.keys = {KeyA, KeyC}]

InitLocks == InitWith(CfgLocks)

NextLocks ==
  \/ \E p \in AllProcs, k \in AllKeys : Allocate(p, k)
  \/ \E p \in AllProcs : AllocLock(p)
  \/ \E p \in AllProcs : AllocList(p)
  \/ \E p \in AllProcs : AllocReserve(p)
  \/ \E p \in AllProcs : AllocMaster(p)
  \/ \E p \in AllProcs : AllocSlave(p)
  \/ \E p \in AllProcs, k \in AllKeys : Release(p, k)
  \/ \E n \in Nodes : WatchListDone(n)
  \/ \E n \in Nodes : WatchDeliver(n)
  \/ GCList
  \/ GCLock
  \/ GCScan
  \/ GCDelete
  \/ GCReturn

SpecLocks == InitLocks /\ [][NextLocks]_vars

\* ------------------------------------------------------------------ masked pool

\* Allocators with a prefix mask, releases and RunGC beside them: IDs
\* selected with the mask come back to the pool through the watcher.
CfgPool == [CfgMain EXCEPT !.prefixMask = HighBitMask]

InitPool == InitWith(CfgPool)

NextPool ==
  \/ \E p \in AllProcs, k \in AllKeys : Allocate(p, k)
  \/ \E p \in AllProcs : AllocLock(p)
  \/ \E p \in AllProcs : AllocList(p)
  \/ \E p \in AllProcs : AllocReserve(p)
  \/ \E p \in AllProcs : AllocMaster(p)
  \/ \E p \in AllProcs : AllocSlave(p)
  \/ \E p \in AllProcs, k \in AllKeys : Release(p, k)
  \/ \E n \in Nodes : WatchListDone(n)
  \/ \E n \in Nodes : WatchDeliver(n)
  \/ GCList
  \/ GCLock
  \/ GCScan
  \/ GCDelete
  \/ GCReturn

SpecPool == InitPool /\ [][NextPool]_vars

\* ------------------------------------------------------------------ one participant

\* Two callers of one participant, on a kvstore whose calls may fail and
\* that may lose its data, their context cancelled between attempts.
CfgLocal ==
  [CfgMain EXCEPT !.procs = {"p1", "p3"}, !.gcRounds = 0, !.maxFaults = MaxFaults,
                  !.cancel = TRUE, !.maxExt = MaxExtDeletes]

InitLocal == InitWith(CfgLocal)

NextLocal ==
  \/ \E p \in AllProcs, k \in AllKeys : Allocate(p, k)
  \/ \E p \in AllProcs : AllocCancel(p)
  \/ \E p \in AllProcs : AllocLock(p)
  \/ \E p \in AllProcs : AllocList(p)
  \/ \E p \in AllProcs : AllocReserve(p)
  \/ \E p \in AllProcs : AllocRecreate(p)
  \/ \E p \in AllProcs : AllocMaster(p)
  \/ \E p \in AllProcs : AllocSlave(p)
  \/ \E p \in AllProcs, k \in AllKeys : Release(p, k)
  \/ \E n \in Nodes : WatchListDone(n)
  \/ \E n \in Nodes : WatchDeliver(n)
  \/ \E m \in DOMAIN kv : DataLoss(m)

SpecLocal == InitLocal /\ [][NextLocal]_vars

\* ------------------------------------------------------------------ construction

\* No allocator yet: NewAllocator is called with options drawn from
\* 0..MaxNewID, with or without a kvstore client, then keys are allocated.
NewKeys == {KeyA, KeyC, KeyD}

CfgNew ==
  [procs |-> {}, keys |-> NewKeys, min |-> MinID, max |-> MaxNewID,
   prefixMask |-> PrefixMask, maxOps |-> Cardinality(NewKeys), maxFaults |-> 0,
   gcRounds |-> 0, crash |-> {}, protect |-> FALSE, sync |-> FALSE, maxExt |-> 0,
   cancel |-> FALSE]

InitNew == InitWith(CfgNew)

NextNew ==
  \/ \E client \in BOOLEAN, min \in 0..MaxNewID, max \in 0..MaxNewID,
        suffix \in Nodes \cup {NilSuffix} :
        NewAllocator("p1", client, min, max, suffix)
  \/ \E p \in AllProcs, k \in AllKeys : Allocate(p, k)
  \/ \E p \in AllProcs : AllocLock(p)
  \/ \E p \in AllProcs : AllocList(p)
  \/ \E p \in AllProcs : AllocReserve(p)
  \/ \E p \in AllProcs : AllocMaster(p)
  \/ \E p \in AllProcs : AllocSlave(p)
  \/ \E n \in Nodes : WatchListDone(n)
  \/ \E n \in Nodes : WatchDeliver(n)

SpecNew == InitNew /\ [][NextNew]_vars

\* ------------------------------------------------------------------ port policies

\* the allocators' variables, left alone by the steps of the other packages
allocatorVars == <<kv, events, dlock, localKeys, pool, cache, mutex, alive, proc, gc,
                   faults, hist, cfg>>

MaxRules == 2
MaxPolicies == 2

TCP == "TCP"
UDP == "UDP"
SCTP == "SCTP"

\* p.Rules[0]: the wildcard port, and another port
WildcardPort == 0
HttpPort == 80
PolicyPorts == {WildcardPort, HttpPort}

\* remote identities and payloads of the traffic
FirstRemote == 1
RemoteIDs == {FirstRemote, FirstRemote + 1}
Payloads == {"x", "y"}

\* the L7 oneof of a rule: none, or HTTP rules; the name of a parser that
\* is registered and one that is not
NoL7 == [type |-> "", rules |-> <<>>]
HttpRules == [type |-> "HttpRules", rules |-> <<"x">>]
UnknownL7 == "bogus"

\* l7RuleParsers after the init() functions: name |-> parser; the HTTP
\* parser turns the oneof into its rules
l7RuleParsers == [name \in {HttpRules.type} |-> "rules"]
l7Parser(name, config) == config.L7[l7RuleParsers[name]]

\* an L7 rule matches the payload it names
L7RuleMatches(rule, l7) == rule = l7

SeqsUpTo(S, n) == UNION {[1..k -> S] : k \in 0..n}

\* what a cilium.NetworkPolicy can hold for one direction
RuleConfigs ==
  [RemotePolicies : {<<>>, <<FirstRemote>>}, L7Proto : {"", UnknownL7},
   L7 : {NoL7, HttpRules}]
PortConfigs ==
  [Port : PolicyPorts, Protocol : {TCP}, Rules : SeqsUpTo(RuleConfigs, MaxRules)]
    \cup [Port : PolicyPorts, Protocol : {UDP, SCTP}, Rules : {<<>>}]
PolicyConfigs == SeqsUpTo(PortConfigs, MaxPolicies)

\* the name of the L7 protocol of a rule: l7_proto, else the oneof's type
l7NameOf(config) == IF config.L7Proto # "" THEN config.L7Proto ELSE config.L7.type

\* newPortNetworkPolicyRule: <<rule, l7Name, ok>>
newPortNetworkPolicyRule(config) ==
  LET rule == [AllowedRemotes |-> {config.RemotePolicies[i] :
                                     i \in DOMAIN config.RemotePolicies},
               L7Rules |-> <<>>]
      l7Name == l7NameOf(config)
  IN  IF l7Name # ""
        THEN IF l7Name \in DOMAIN l7RuleParsers
               THEN <<[rule EXCEPT !.L7Rules = l7Parser(l7Name, config)], l7Name, TRUE>>
               ELSE <<rule, l7Name, FALSE>>
        ELSE <<rule, "", TRUE>>

\* newPortNetworkPolicyRules, from rule i on: [rules, ok, panic]
RECURSIVE rulesFrom(_, _, _, _)
rulesFrom(config, i, rules, firstTypeName) ==
  IF i > Len(config) THEN [rules |-> rules, ok |-> TRUE, panic |-> FALSE]
  ELSE LET r == newPortNetworkPolicyRule(config[i])
           newRule == r[1]
           typeName == r[2]
           ok == r[3]
       IN  IF ~ok
             THEN \* unknown L7 parser, must drop all traffic
                  [rules |-> [Rules |-> <<>>, HaveL7Rules |-> TRUE],
                   ok |-> FALSE, panic |-> FALSE]
           ELSE IF typeName # "" /\ firstTypeName # "" /\ typeName # firstTypeName
             THEN [rules |-> rules, ok |-> FALSE, panic |-> TRUE]
           ELSE rulesFrom(config, i + 1,
                          [Rules |-> Append(rules.Rules, newRule),
                           HaveL7Rules |-> rules.HaveL7Rules \/ Len(newRule.L7Rules) > 0],
                          IF typeName # "" /\ firstTypeName = ""
                            THEN typeName ELSE firstTypeName)

newPortNetworkPolicyRules(config) ==
  rulesFrom(config, 1, [Rules |-> <<>>, HaveL7Rules |-> FALSE], "")

\* the test as it would be with a port of an unknown L7 parser installed
\* with the drop-all rules
portInstalledAlways(ok) == TRUE

\* newPortNetworkPolicies: is the port installed ('Skip the port if not ok')
portInstalled(ok) == ok

\* newPortNetworkPolicies, from port policy i on: [Rules, panic]
RECURSIVE policiesFrom(_, _, _)
policiesFrom(config, i, installed) ==
  IF i > Len(config) THEN [Rules |-> installed, panic |-> FALSE]
  ELSE LET rule == config[i]
           port == rule.Port
           r == newPortNetworkPolicyRules(rule.Rules)
       IN  IF rule.Protocol = UDP THEN policiesFrom(config, i + 1, installed)
           ELSE IF port \in DOMAIN installed \/ rule.Protocol # TCP \/ r.panic
             THEN [Rules |-> installed, panic |-> TRUE]
           ELSE policiesFrom(config, i + 1,
                             IF portInstalled(r.ok) THEN MapPut(installed, port, r.rules)
                             ELSE installed)

newPortNetworkPolicies(config) == policiesFrom(config, 1, EmptyMap)

\* PortNetworkPolicyRule.Matches: the loop over p.L7Rules from rule j on
RECURSIVE l7RulesMatchFrom(_, _, _)
l7RulesMatchFrom(L7Rules, j, l7) ==
  IF j > Len(L7Rules) THEN FALSE
  ELSE IF L7RuleMatches(L7Rules[j], l7) THEN TRUE
  ELSE l7RulesMatchFrom(L7Rules, j + 1, l7)

\* the test as it would be with the allowed remotes not looked at
remoteAllowedAlways(p, remoteId) == TRUE

\* PortNetworkPolicyRule.Matches: remote ID must match if we have any
remoteAllowed(p, remoteId) ==
  ~(Cardinality(p.AllowedRemotes) > 0 /\ remoteId \notin p.AllowedRemotes)

PortNetworkPolicyRuleMatches(p, remoteId, l7) ==
  IF ~remoteAllowed(p, remoteId) THEN FALSE
  ELSE IF Len(p.L7Rules) > 0 THEN l7RulesMatchFrom(p.L7Rules, 1, l7)
  ELSE TRUE

\* PortNetworkPolicyRules.Matches: the loop over p.Rules from rule i on
RECURSIVE rulesMatchFrom(_, _, _, _)
rulesMatchFrom(Rules, i, remoteId, l7) ==
  IF i > Len(Rules) THEN FALSE
  ELSE IF PortNetworkPolicyRuleMatches(Rules[i], remoteId, l7) THEN TRUE
  ELSE rulesMatchFrom(Rules, i + 1, remoteId, l7)

PortNetworkPolicyRulesMatches(p, remoteId, l7) ==
  IF ~p.HaveL7Rules THEN TRUE
  ELSE IF Len(p.Rules) = 0 THEN TRUE
  ELSE rulesMatchFrom(p.Rules, 1, remoteId, l7)

\* PortNetworkPolicies.Matches on the map p.Rules
PortNetworkPoliciesMatches(Rules, port, remoteId, l7) ==
  IF port \in DOMAIN Rules /\ PortNetworkPolicyRulesMatches(Rules[port], remoteId, l7)
    THEN TRUE
  ELSE IF WildcardPort \in DOMAIN Rules
          /\ PortNetworkPolicyRulesMatches(Rules[WildcardPort], remoteId, l7)
    THEN TRUE
  ELSE FALSE

\* newPolicyInstance for one direction; a ParseError rejects the update
NewPolicyInstance(config) ==
  /\ ~policy.loaded /\ ~policy.rejected
  /\ LET r == newPortNetworkPolicies(config) IN
       policy' = IF r.panic
                   THEN [policy EXCEPT !.config = config, !.rejected = TRUE]
                   ELSE [policy EXCEPT !.config = config, !.installed = r.Rules,
                                       !.loaded = TRUE]
  /\ UNCHANGED <<allocatorVars, observer>>

\* PolicyInstance.Matches for traffic of the direction
PolicyMatches(port, remoteId, l7) ==
  /\ policy.loaded
  /\ policy' = [policy EXCEPT
                  !.asked = [port |-> port, remoteId |-> remoteId, l7 |-> l7],
                  !.verdict = PortNetworkPoliciesMatches(policy.installed, port,
                                                         remoteId, l7)]
  /\ UNCHANGED <<allocatorVars, observer>>

InitPolicy == InitWith(CfgMain)

\* a policy update arrives while no policy is loaded
PolicyUpdate ==
  /\ ~policy.loaded /\ ~policy.rejected
  /\ \E config \in PolicyConfigs : NewPolicyInstance(config)

NextPolicy ==
  \/ PolicyUpdate
  \/ \E port \in PolicyPorts, remoteId \in RemoteIDs, l7 \in Payloads :
       PolicyMatches(port, remoteId, l7)

SpecPolicy == InitPolicy /\ [][NextPolicy]_vars

\* ------------------------------------------------------------ node observer
\* NodeObserver of the node store: OnUpdate and OnDelete are called by the
\* shared store, one event at a time; every OnDelete starts a goroutine.  The
\* manager is the NodeManager interface: NodeUpdated adds the node,
\* NodeDeleted removes it, Exists is membership.

\* defaults.NodeDeleteDelay, in clock ticks
NodeDeleteDelay == 2
MaxTime == 3
MaxNodeEvents == 3

\* the node of an event: its name, and whether it has a cilium internal
\* IPv4 / IPv6 address (GetCiliumInternalIP returns nil otherwise)
NodeCopies == [Name : ClusterNodes, ciliumIPv4 : BOOLEAN, ciliumIPv6 : BOOLEAN]

\* the ipcache keys of a node: ciliumIPv4.String(), ciliumIPv6.String() and
\* hostIP.String()
CiliumIPv4(n) == IF n.ciliumIPv4 THEN {<<n.Name, "ciliumIPv4">>} ELSE {}
CiliumIPv6(n) == IF n.ciliumIPv6 THEN {<<n.Name, "ciliumIPv6">>} ELSE {}
HostIP(n) == {<<n.Name, "hostIP">>}

\* a deletion goroutine of node n is asleep and its delay has not elapsed
Sleeping(r, name) ==
  r.node.Name = name /\ r.pc = "sleep" /\ observer.now < r.wake

\* OnUpdate, first half: o.manager.NodeUpdated(*nodeCopy)
OnUpdate(n) ==
  /\ observer.handler = <<>>
  /\ observer.events < MaxNodeEvents
  /\ observer' = [observer EXCEPT
         !.manager = @ \cup {n.Name},
         !.handler = n,
         !.events = @ + 1,
         !.lastEvent[n.Name] = "update",
         !.routines = {IF Sleeping(r, n.Name)
                         THEN [r EXCEPT !.reappeared = TRUE] ELSE r : r \in @}]
  /\ UNCHANGED <<allocatorVars, policy>>

\* OnUpdate, second half: the Upserts of the cilium internal IPs, and of the
\* host IP when option.Config.EncryptNode
OnUpdateUpsert ==
  /\ observer.handler # <<>>
  /\ LET n == observer.handler IN
       observer' = [observer EXCEPT
         !.ipcache = @ \cup CiliumIPv4(n) \cup CiliumIPv6(n)
                       \cup (IF observer.encryptNode THEN HostIP(n) ELSE {}),
         !.handler = <<>>]
  /\ UNCHANGED <<allocatorVars, policy>>

\* OnDelete: copies the node and starts the goroutine, which sleeps
OnDelete(n) ==
  /\ observer.handler = <<>>
  /\ observer.events < MaxNodeEvents
  /\ observer' = [observer EXCEPT
         !.events = @ + 1,
         !.lastEvent[n.Name] = "delete",
         !.deleted = @ \cup {n.Name},
         !.routines = @ \cup {[id |-> observer.events + 1, node |-> n,
                               start |-> observer.now,
                               wake |-> observer.now + NodeDeleteDelay,
                               pc |-> "sleep", exists |-> FALSE,
                               checkedAt |-> 0, reappeared |-> FALSE]}]
  /\ UNCHANGED <<allocatorVars, policy>>

\* the clock of time.Sleep
Tick ==
  /\ observer.now < MaxTime
  /\ observer' = [observer EXCEPT !.now = @ + 1]
  /\ UNCHANGED <<allocatorVars, policy>>

\* the goroutine of r with its record replaced
WithRoutine(r, q) == (observer.routines \ {r}) \cup {q}

\* the goroutine wakes no earlier than its delay and asks o.manager.Exists;
\* it returns when the node exists
OnDeleteExistsStep(r) ==
  /\ r.pc = "sleep"
  /\ observer.now >= r.wake
  /\ LET exists == r.node.Name \in observer.manager IN
       observer' = [observer EXCEPT !.routines = WithRoutine(r,
         [r EXCEPT !.exists = exists, !.checkedAt = observer.now,
                   !.pc = IF exists THEN "returned" ELSE "NodeDeleted"])]
  /\ UNCHANGED <<allocatorVars, policy>>

\* o.manager.NodeDeleted(*nodeCopy)
OnDeleteNodeDeletedStep(r) ==
  /\ r.pc = "NodeDeleted"
  /\ observer' = [observer EXCEPT
         !.manager = @ \ {r.node.Name},
         !.routines = WithRoutine(r, [r EXCEPT !.pc = "ciliumIPv4"])]
  /\ UNCHANGED <<allocatorVars, policy>>

\* ipcache.IPIdentityCache.Delete(ciliumIPv4.String(), ...) unless nil
OnDeleteIPv4Step(r) ==
  /\ r.pc = "ciliumIPv4"
  /\ observer' = [observer EXCEPT
         !.ipcache = @ \ CiliumIPv4(r.node),
         !.routines = WithRoutine(r, [r EXCEPT !.pc = "ciliumIPv6"])]
  /\ UNCHANGED <<allocatorVars, policy>>

\* ipcache.IPIdentityCache.Delete(ciliumIPv6.String(), ...) unless nil
OnDeleteIPv6Step(r) ==
  /\ r.pc = "ciliumIPv6"
  /\ observer' = [observer EXCEPT
         !.ipcache = @ \ CiliumIPv6(r.node),
         !.routines = WithRoutine(r, [r EXCEPT !.pc = "done"])]
  /\ UNCHANGED <<allocatorVars, policy>>

\* the steps of any of the deletion goroutines
OnDeleteExists == \E r \in observer.routines : OnDeleteExistsStep(r)
OnDeleteNodeDeleted == \E r \in observer.routines : OnDeleteNodeDeletedStep(r)
OnDeleteIPv4 == \E r \in observer.routines : OnDeleteIPv4Step(r)
OnDeleteIPv6 == \E r \in observer.routines : OnDeleteIPv6Step(r)

InitObserver ==
  /\ AllocatorInit(CfgMain)
  /\ policy = NoPolicy
  /\ \E e \in BOOLEAN : observer = [NoObserver EXCEPT !.encryptNode = e]

NextObserver ==
  \/ \E n \in NodeCopies : OnUpdate(n)
  \/ OnUpdateUpsert
  \/ \E n \in NodeCopies : OnDelete(n)
  \/ Tick
  \/ OnDeleteExists
  \/ OnDeleteNodeDeleted
  \/ OnDeleteIPv4
  \/ OnDeleteIPv6

SpecObserver == InitObserver /\ [][NextObserver]_vars

\* ================================================================== claims

\* the successful Allocate calls so far, as [proc, key, id, isNew, fresh, n]
Rets == hist.rets

\* C1: after any interleaving of Allocate calls across participants, the IDs
\* handed out for two different keys are different.
DistinctKeysDistinctIDs ==
  \A r1 \in Rets, r2 \in Rets : r1.key # r2.key => r1.id # r2.id

\* two participants were handed IDs for two different keys
DistinctKeysAllocated ==
  \E r1 \in Rets, r2 \in Rets : r1.key # r2.key /\ r1.proc # r2.proc

Rels == hist.rels

\* C3: RunGC never deletes a master key while a slave key of its key exists.
GCNeverDeletesUsedMaster ==
  [][(gc.pc = "delete" /\ gc.key \in DOMAIN kv /\ gc.key \notin DOMAIN kv')
       => SlavePathsOf(kv[gc.key].data) = {}]_vars

\* C4: a master key that had no slave key when a RunGC round began, and that
\* no Allocate of its key, no slave key and no write disturbed until the
\* next round (started with the stale map of the first) returned, is absent.
GCCollectsUnused ==
  \A m \in DOMAIN hist.quiet : hist.quiet[m].n = 2 => ~Exists(m)

\* two successive rounds have passed over a master key nobody used
TwoQuietRounds == \E m \in DOMAIN hist.quiet : hist.quiet[m].n = 2

\* C5: of n Allocate(k) followed by n Release(k) on one participant, every
\* Allocate returns the ID of the first; while references are held the
\* local table counts them and the slave key holds the ID; the Release that
\* returns lastUse is the one that leaves no reference, and after it the
\* local entry and the participant's slave key are gone.
LocalIdempotence ==
  /\ \A r \in Rets : r.id = r.first
  /\ \A r \in Rels : r.lastUse = (r.local = 1)
  /\ \A p \in cfg.procs, k \in cfg.keys :
       LET n == NodeOf(p)
           own == ValueKey(k, n)
       IN  (\A q \in AllProcs : NodeOf(q) = n => proc[q].pc = "idle") =>
             IF HeldOn(n, k) > 0
               THEN /\ k \in DOMAIN localKeys[n]
                    /\ localKeys[n][k].refcnt = HeldOn(n, k)
                    /\ Exists(own)
                    /\ kv[own].data = FormatUint(localKeys[n][k].val)
                    /\ Held(p, k) > 0 => hist.first[p][k] = localKeys[n][k].val
               ELSE k \notin DOMAIN localKeys[n] /\ ~Exists(own)

\* a participant took two references on a key and released both
TwoTakenTwoReleased ==
  \E p \in AllProcs :
    /\ proc[p].pc = "idle" /\ proc[p].ret.op = "Release" /\ proc[p].ret.lastUse
    /\ Held(p, proc[p].ret.key) = 0
    /\ \E r \in Rets : r.proc = p /\ r.key = proc[p].ret.key /\ r.n = 2
    /\ \E r \in Rels : r.proc = p /\ r.key = proc[p].ret.key /\ r.local = 2

\* C6: after the lease of a crashed participant expired none of its slave
\* keys is left, masters left unused are gone two RunGC rounds later, and an
\* Allocate that then finds no record of its key creates a new ID
\* (isNew=true) inside [min,max].
CrashRecovery ==
  /\ \A n \in Nodes : alive[n] = "expired" =>
       \A path \in ListPrefix(valuePrefix) : Base(path) # <<n>>
  /\ \A m \in DOMAIN hist.quiet : hist.quiet[m].n = 2 => ~Exists(m)
  /\ \A r \in Rets : r.late => r.isNew /\ r.id \in cfg.min..cfg.max

ReleaseStep(p) == proc'[p].ret.op = "Release" /\ hist'.held[p] # hist.held[p]

\* C9: Release(k) changes nothing in the store but the participant's own
\* slave key of k, which it deletes only when the call leaves no local
\* reference; it writes no master key and emits no event.
ReleaseFrame ==
  [][\A p \in AllProcs :
       ReleaseStep(p) =>
         LET k == proc'[p].ret.key
             own == ValueKey(k, NodeOf(p))
         IN  /\ \A path \in ((DOMAIN kv) \cup (DOMAIN kv')) \ {own} :
                  path \in DOMAIN kv /\ path \in DOMAIN kv' /\ kv'[path] = kv[path]
             /\ own \in DOMAIN kv' => (own \in DOMAIN kv /\ kv'[own] = kv[own])
             /\ (own \in DOMAIN kv /\ own \notin DOMAIN kv') =>
                  k \notin DOMAIN localKeys'[NodeOf(p)]
             /\ events' = events]_vars

\* a Release deleted its slave key while another participant's slave key and
\* the master key of the same key stayed
ReleasedBesideOthers ==
  \E r \in Rels :
    /\ r.lastUse /\ r.others
    /\ ~Exists(ValueKey(r.key, NodeOf(r.proc)))
    /\ SlavePathsOf(r.key) # {}
    /\ \E m \in MasterPaths : kv[m].data = r.key

\* the keys caller p holds a reference on
KeysHeld(p) == {k \in AllKeys : Held(p, k) > 0}

\* C10: with min=1 and max=3 the Allocate calls of one participant for three
\* distinct keys succeed with pairwise distinct IDs in 1..3; the Allocate of
\* a fourth key fails with "no more available IDs in configured space" and
\* leaves no master key and no slave key of that key.
PoolExhaustion ==
  /\ \A r \in Rets : r.id \in MinID..ExhaustMax
  /\ \A r1 \in Rets, r2 \in Rets : r1.key # r2.key => r1.id # r2.id
  /\ \A p \in cfg.procs :
       (proc[p].pc = "idle" /\ proc[p].ret.op = "Allocate") =>
         IF proc[p].ret.err = ErrNone
           THEN proc[p].ret.key \in KeysHeld(p)
           ELSE /\ proc[p].ret.err = ErrExhausted
                /\ Cardinality(KeysHeld(p)) = ExhaustMax - MinID + 1
                /\ proc[p].ret.key \notin KeysHeld(p)
                /\ NoRecord(proc[p].ret.key)

\* three keys are held and the Allocate of the fourth has failed
FourthKeyRefused ==
  \E p \in AllProcs :
    /\ proc[p].pc = "idle" /\ proc[p].ret.op = "Allocate"
    /\ proc[p].ret.err = ErrExhausted
    /\ Cardinality(KeysHeld(p)) = ExhaustMax - MinID + 1

\* the NewAllocator calls that returned an allocator and the last one that
\* did not, as [proc, client, min, max, suffix, err]
News == hist.news

\* whether a call of NewAllocator had a kvstore client and a usable suffix
Constructible(r) == r.client /\ r.suffix # NilSuffix

\* in a constructed allocator an Allocate fails only with the pool's error,
\* and only when every ID of [min,max] is taken by a key the caller holds
ExhaustsAtRange(p) ==
  /\ \A r \in Rets : r.proc = p => r.id \in cfg.min..cfg.max
  /\ \A r1 \in Rets, r2 \in Rets : r1.key # r2.key => r1.id # r2.id
  /\ (proc[p].pc = "idle" /\ proc[p].ret.op = "Allocate"
        /\ proc[p].ret.err # ErrNone) =>
       /\ proc[p].ret.err = ErrExhausted
       /\ Cardinality(KeysHeld(p)) = cfg.max - cfg.min + 1
       /\ NoRecord(proc[p].ret.key)

\* C11, as claimed: NewAllocator with min=1, max=1 yields an allocator (that
\* allocates one key and refuses the second).
OneIDRangeConstructed ==
  \A r \in News : (Constructible(r) /\ r.min = 1 /\ r.max = 1) => r.err = ErrNone

\* C11, amended: NewAllocator with min=1, max=1 returns "maximum ID must be
\* greater than minimum ID" and no allocator; an allocator has at least two
\* IDs, and with min=1, max=2 it allocates two distinct keys and refuses the
\* third with the pool's error.
OneIDRangeRefused ==
  /\ \A r \in News : (Constructible(r) /\ r.min = 1 /\ r.max = 1) => r.err = ErrMax
  /\ \A p \in cfg.procs : cfg.max - cfg.min + 1 >= 2 /\ ExhaustsAtRange(p)

\* min=1, max=1 was refused; the allocator of min=1, max=2 holds two keys
\* and has refused the third
TwoIDRangeExhausted ==
  /\ \E r \in News : Constructible(r) /\ r.min = 1 /\ r.max = 1 /\ r.err = ErrMax
  /\ "p1" \in cfg.procs /\ cfg.min = 1 /\ cfg.max = 2
  /\ proc["p1"].pc = "idle" /\ proc["p1"].ret.op = "Allocate"
  /\ proc["p1"].ret.err = ErrExhausted
  /\ Cardinality(KeysHeld("p1")) = 2

\* the state of a node no allocator was constructed on
Unconstructed(n) ==
  /\ ~cache[n].listDone /\ cache[n].seen = 0
  /\ cache[n].keyCache = EmptyMap /\ cache[n].idCache = EmptyMap
  /\ localKeys[n] = EmptyMap

\* C12: NewAllocator returns an error, and no allocator, exactly when the
\* kvstore client is nil, min < 1, max <= min or the suffix is "<nil>", and
\* then no cache watcher runs; a constructed allocator has min >= 1 and
\* max > min and hands out IDs of [min,max] only.
BadConfigurationRejected ==
  /\ \A r \in News :
       (r.err # ErrNone) <=>
         (~r.client \/ r.min < 1 \/ r.max <= r.min \/ r.suffix = NilSuffix)
  /\ \A p \in Callers :
       IF p \in cfg.procs
         THEN /\ cfg.min >= 1 /\ cfg.max > cfg.min
              /\ \E r \in News : r.proc = p /\ r.err = ErrNone
                                   /\ r.min = cfg.min /\ r.max = cfg.max
              /\ pool[NodeOf(p)].free \cup pool[NodeOf(p)].leased
                   \cup pool[NodeOf(p)].inuse \subseteq cfg.min..cfg.max
              /\ \A r \in Rets : r.proc = p => r.id \in cfg.min..cfg.max
         ELSE /\ Unconstructed(NodeOf(p))
              /\ \A r \in News : r.proc = p => r.err # ErrNone

\* a configuration with a client, a suffix and min >= 1 was refused for its
\* maximum, then an allocator was constructed and allocated a key
RejectedThenConstructed ==
  /\ \E r \in News : r.err = ErrMax /\ r.min >= 1 /\ r.max <= r.min
  /\ "p1" \in cfg.procs
  /\ \E r \in Rets : r.proc = "p1"

\* the IDs held by the slave keys of k: the records at exactly
\* <valuePrefix>/<k>/<one segment>
ExactSlaveIDs(k) ==
  {ParseUint(kv[path].data)[2] :
     path \in {ValueKey(k, n) : n \in Nodes} \cap DOMAIN kv}

\* what a lookup that finds the slave keys of k, and only those, returns
FromExactSlaves(k) == IF ExactSlaveIDs(k) = {} THEN {NoID} ELSE ExactSlaveIDs(k)

ProtectStep(n, id, k) ==
  /\ cfg.protect /\ n \in Participants
  /\ cache[n].seen < Len(events) /\ cache'[n].seen = cache[n].seen + 1
  /\ events[cache[n].seen + 1].typ = "delete"
  /\ events[cache[n].seen + 1].key = IdPath(id)
  /\ k \in DOMAIN localKeys[n] /\ localKeys[n][k].val = id

\* C14: with master-key protection, the step of the watcher that takes a
\* delete event of id/<i> while i is in local use for key k leaves a master
\* key id/<i>: created with value k if it was absent, untouched if it was
\* there (create only if absent); and it leaves the participant's slave key
\* of k with value i.
MasterKeyProtected ==
  [][\A n \in Nodes, id \in MinID..MaxID, k \in AllKeys :
       ProtectStep(n, id, k) =>
         /\ IdPath(id) \in DOMAIN kv'
         /\ IF IdPath(id) \in DOMAIN kv
              THEN kv'[IdPath(id)] = kv[IdPath(id)]
              ELSE kv'[IdPath(id)].data = k
         /\ ValueKey(k, n) \in DOMAIN kv'
         /\ kv'[ValueKey(k, n)].data = FormatUint(id)]_vars

\* a master key in local use was deleted from outside and is back with its
\* value, created again by the watcher of the node that uses it
MasterKeyRecreated ==
  \E i \in 1..Len(events), j \in 1..Len(events) :
    /\ i < j /\ hist.ext > 0
    /\ events[i].typ = "delete" /\ events[j].typ = "create"
    /\ events[i].key = events[j].key
    /\ Exists(events[j].key) /\ kv[events[j].key].data = events[j].data
    /\ \E n \in Nodes :
         /\ cache[n].seen = j - 1
         /\ \E k \in DOMAIN localKeys[n] :
              k = events[j].data /\ IdPath(localKeys[n][k].val) = events[j].key

\* ForeachCache on node n: the (id, key) pairs of the main cache
ForeachCache(n) == {<<id, cache[n].idCache[id]>> : id \in DOMAIN cache[n].idCache}

\* a direct prefix-list of id/: the (id, key) pairs of the master keys
MasterRecords == {<<ParseUint(Base(m))[2], kv[m].data>> : m \in MasterPaths}

\* the watcher of node n received the initial list and every event
Delivered(n) ==
  /\ n \in Participants /\ alive[n] = "up"
  /\ cache[n].listDone /\ cache[n].seen = Len(events)

\* C15: on a node whose watcher received every event, ForeachCache
\* enumerates exactly the master keys a prefix-list of id/ returns.
CacheConvergence ==
  \A n \in Nodes : Delivered(n) => ForeachCache(n) = MasterRecords

\* caller p enters Allocate(k)
AllocateCall(p, k) ==
  /\ proc[p].pc = "idle" /\ proc'[p].ops = proc[p].ops + 1
  /\ \/ proc'[p].pc # "idle" /\ proc'[p].key = k
     \/ proc'[p].pc = "idle" /\ proc'[p].ret.op = "Allocate" /\ proc'[p].ret.key = k

\* C16: an Allocate of a key the participant holds locally returns in one
\* step with the held ID and isNew = false, takes one more local reference,
\* takes no distributed lock and makes no kvstore call: the store, the
\* events, the locks, the failures charged and the pool are unchanged.
LocalFastPath ==
  [][\A p \in AllProcs, k \in AllKeys :
       (AllocateCall(p, k) /\ k \in DOMAIN localKeys[NodeOf(p)]) =>
         LET n == NodeOf(p) IN
         /\ proc'[p].pc = "idle"
         /\ proc'[p].ret = Ret("Allocate", k, localKeys[n][k].val, FALSE, ErrNone, FALSE)
         /\ localKeys'[n] = [localKeys[n] EXCEPT ![k].refcnt = @ + 1]
         /\ kv' = kv /\ events' = events /\ dlock' = dlock
         /\ faults' = faults /\ pool' = pool /\ mutex' = mutex]_vars

\* a caller took a second reference on the key its participant holds
SecondLocalReference ==
  \E p \in AllProcs :
    /\ proc[p].pc = "idle" /\ proc[p].ret.op = "Allocate"
    /\ proc[p].ret.err = ErrNone /\ ~proc[p].ret.isNew
    /\ proc[p].ret.key \in DOMAIN localKeys[NodeOf(p)]
    /\ localKeys[NodeOf(p)][proc[p].ret.key].refcnt = 2
    /\ proc[p].ret.id = localKeys[NodeOf(p)][proc[p].ret.key].val
    /\ dlock = EmptyMap

\* slave key path s of key k has its master key: id/<i> with value k, for
\* the ID i the slave key holds
HasMaster(k, s) ==
  LET parsed == ParseUint(kv[s].data) IN
  /\ parsed[1]
  /\ IdPath(parsed[2]) \in DOMAIN kv
  /\ kv[IdPath(parsed[2])].data = k

\* C17: while no RunGC round is in progress, every slave key
\* value/<k>/<suffix> holding ID i has a master key id/<i> with value k.
SlaveImpliesMaster ==
  gc.pc = "idle" => \A k \in AllKeys : \A s \in SlavePathsOf(k) : HasMaster(k, s)

\* the errors of a call that gave up waiting for the initial list
WaitErrors == {ErrAllocWait, ErrReleaseWait}

\* caller p takes a step of one of its calls
CallStep(p) == proc'[p] # proc[p]

\* C18: a step of a caller whose participant has not received the initial
\* list, and any step that returns the error of the cancelled wait, is the
\* return of that error and leaves the local key table, the pool, the store
\* and the locks unchanged; so before the initial list the participant holds
\* no local key, no slave key and no lock.
WaitsForInitialList ==
  [][\A p \in AllProcs :
       /\ (CallStep(p) /\ ~cache[NodeOf(p)].listDone) =>
            /\ proc[p].pc = "idle" /\ proc'[p].pc = "idle"
            /\ proc'[p].ret.err \in WaitErrors
       /\ (CallStep(p) /\ proc'[p].pc = "idle" /\ proc'[p].ret.err \in WaitErrors) =>
            /\ proc[p].pc = "idle"
            /\ proc'[p].ret.id = NoID /\ ~proc'[p].ret.lastUse
            /\ localKeys' = localKeys /\ pool' = pool
            /\ kv' = kv /\ events' = events /\ dlock' = dlock]_vars

\* both calls gave up waiting on a participant that has no initial list yet,
\* while the other participant had allocated
CancelledBeforeInitialList ==
  \E p \in AllProcs, q \in AllProcs :
    /\ ~cache[NodeOf(p)].listDone
    /\ proc[p].pc = "idle" /\ proc[p].ret.err = ErrReleaseWait /\ proc[p].ops > 0
    /\ localKeys[NodeOf(p)] = EmptyMap
    /\ q # p /\ localKeys[NodeOf(q)] # EmptyMap

\* C19: a distributed lock is held only by a lockedAllocate attempt that
\* is between its lockPath and its return, for the key of the call, or by
\* the RunGC iteration that is between its lockPath and its Unlock, for the
\* master key it examines: a caller between attempts or back from Allocate
\* and a RunGC between iterations or rounds hold none, whatever failed.
LocksReleased ==
  \A path \in DOMAIN dlock :
    IF dlock[path] = GCProc
      THEN gc.pc \in {"scan", "delete"} /\ path = lockPath(gc.key)
      ELSE /\ dlock[path] \in AllProcs
           /\ proc[dlock[path]].pc \notin {"idle", "lock"}
           /\ path = lockPath(proc[dlock[path]].key)

\* an Allocate was cancelled after the attempt that created the master key
\* failed to write the slave key, a RunGC round is over, and no lock is held
FailedAttemptUnlocked ==
  /\ faults > 0 /\ dlock = EmptyMap
  /\ gc.pc = "idle" /\ gc.round > 0
  /\ \A p \in AllProcs : proc[p].pc = "idle"
  /\ \E p \in AllProcs :
       /\ proc[p].ret.op = "Allocate" /\ proc[p].ret.err = ErrCancelled
       /\ SlavePathsOf(proc[p].ret.key) = {}
       /\ \E m \in MasterPaths : kv[m].data = proc[p].ret.key

\* caller p is in the critical section of lockedAllocate for key k
InLockedAllocate(p, k) ==
  /\ proc[p].pc \notin {"idle", "lock"} /\ proc[p].key = k
  /\ lockPath(k) \in DOMAIN dlock /\ dlock[lockPath(k)] = p

\* RunGC is in the iteration of a master key of key k, holding its lock
InGCIteration(k) ==
  /\ gc.pc \in {"scan", "delete"}
  /\ gc.key \in DOMAIN gc.allocated /\ gc.allocated[gc.key].data = k
  /\ lockPath(gc.key) \in DOMAIN dlock /\ dlock[lockPath(gc.key)] = GCProc

\* C20: the RunGC iteration of a master key of key k and the critical
\* section of a lockedAllocate of k are never in progress at the same time.
GCExcludesAllocate ==
  \A p \in AllProcs, k \in AllKeys : ~(InLockedAllocate(p, k) /\ InGCIteration(k))

\* the (key, ID) pairs the live participant n holds verified local
\* references on
LocalPairs(n) ==
  IF alive[n] = "up"
    THEN {<<k, localKeys[n][k].val>> : k \in getVerifiedIDs(localKeys[n])}
    ELSE {}

\* C21: no two live participants hold local references to two different
\* keys with the same ID, and no two hold the same key with different IDs.
UniqueAcrossParticipants ==
  \A n1 \in Nodes, n2 \in Nodes :
    \A x \in LocalPairs(n1), y \in LocalPairs(n2) : (x[1] = y[1]) <=> (x[2] = y[2])

\* no call is in progress on the participant of caller p
Quiet(p) == \A q \in AllProcs : NodeOf(q) = NodeOf(p) => proc[q].pc = "idle"

\* C22: while a caller on participant n holds a reference on key k that a
\* successful Allocate handed out, the slave key value/<k>/<n> exists and
\* holds the ID the participant holds for k; stated for the states where no
\* call is in progress on n, so that a slave key write still to come does
\* not count, and where the store lost nothing.
HeldImpliesSlave ==
  \A p \in AllProcs, k \in AllKeys :
    (Held(p, k) > 0 /\ alive[NodeOf(p)] = "up" /\ Quiet(p) /\ hist.ext = 0) =>
      /\ Exists(ValueKey(k, NodeOf(p)))
      /\ kv[ValueKey(k, NodeOf(p))].data =
           FormatUint(lookupKey(localKeys[NodeOf(p)], k))

\* C23: no step of the local key sync or of the master-key protection
\* changes the value of a master key that exists: a master key id/<i> that
\* holds another key than the one held locally for i is left as it is.
MasterNeverOverwritten ==
  [][\A m \in MasterPaths :
       (proc' = proc /\ gc' = gc /\ m \in DOMAIN kv') => kv'[m].data = kv[m].data]_vars

\* the local refcount of key k on node n
Refcount(n, k) == IF k \in DOMAIN localKeys[n] THEN localKeys[n][k].refcnt ELSE 0

\* C24: while no call is in progress on a participant, the local refcount
\* of every key is the number of references its callers hold: successful
\* Allocate calls not yet released. Every successful Allocate raised it by
\* one, every failed one left it, every Release lowered it by one.
RefcountBalance ==
  \A p \in AllProcs, k \in AllKeys :
    (alive[NodeOf(p)] = "up" /\ Quiet(p)) => Refcount(NodeOf(p), k) = HeldOn(NodeOf(p), k)

\* C25: no two master keys hold the same key string.
OneMasterPerKey ==
  \A m1 \in MasterPaths, m2 \in MasterPaths : m1 # m2 => kv[m1].data # kv[m2].data

\* a step of RunGC in which no kvstore call failed
GCStep == gc' # gc /\ faults' = faults

\* the master key that RunGC has locked has no slave key in the store
GCNoUsers == SlavePathsOf(gc.allocated[gc.key].data) = {}

\* the previous round returned the locked master key with the revision it
\* has in the list of this round
GCStale ==
  gc.key \in DOMAIN gc.prev /\ gc.prev[gc.key] = gc.allocated[gc.key].modRev

\* C26: RunGC deletes a master key if and only if it lists no slave key of
\* it and the stale map of the previous round holds the master key with the
\* revision listed in this round; a master key without slave keys that is
\* not in that map, or is in it with another revision, is kept and put into
\* the returned map with its revision; a master key with a slave key is
\* kept and is not put into the returned map.
GCDecision ==
  [][/\ (gc.pc = "scan" /\ GCStep) =>
          /\ gc'.pc = "delete" <=> (GCNoUsers /\ GCStale)
          /\ (GCNoUsers /\ ~GCStale) =>
               gc'.stale = MapPut(gc.stale, gc.key, gc.allocated[gc.key].modRev)
          /\ (~GCNoUsers \/ GCStale) => gc'.stale = gc.stale
     /\ (gc.pc = "delete" /\ GCStep) =>
          gc.key \notin DOMAIN kv' /\ gc'.stale = gc.stale
     /\ (gc' # gc /\ \E m \in MasterPaths : m \notin DOMAIN kv') =>
          gc.pc = "delete" /\ MasterPaths \ DOMAIN kv' = {gc.key}
     /\ (gc.pc = "lock" /\ gc'.pc = "idle") => gc'.prev = gc.stale]_vars

\* RunGC returned a master key without slave keys whose revision had changed
\* since the round before
GCRevisionChanged ==
  /\ gc.round = 2 /\ gc.pc = "lock"
  /\ \E m \in DOMAIN gc.stale :
       /\ m \in DOMAIN gc.prev /\ gc.stale[m] # gc.prev[m]
       /\ Exists(m) /\ kv[m].modRev = gc.stale[m]

\* a step of RunGC in which a kvstore call failed
GCFailedStep == gc' # gc /\ faults' # faults

\* C27: a RunGC whose list of id/ fails returns the error and deletes
\* nothing; a failure to lock a master key, to list its slave keys or to
\* delete it skips that master key only: nothing is deleted, no lock is
\* kept, the other listed master keys are still to be processed, and the
\* round returns a nil error once all of them have been.
GCKeyFailuresNotFatal ==
  /\ [][/\ (gc.pc = "idle" /\ GCFailedStep) =>
             /\ gc'.pc = "idle" /\ gc'.err = ErrList
             /\ kv' = kv /\ dlock' = dlock
        /\ (gc.pc = "idle" /\ GCStep) =>
             /\ gc'.pc = "lock" /\ gc'.err = ErrNone
             /\ DOMAIN gc'.allocated = MasterPaths
        /\ (gc.pc # "idle" /\ GCFailedStep) =>
             /\ \E key \in DOMAIN gc.allocated :
                  /\ gc'.allocated = MapDel(gc.allocated, key)
                  /\ gc'.skipped = gc.skipped \cup {key}
                  /\ gc.pc # "lock" => key = gc.key
             /\ gc'.pc = "lock" /\ gc'.err = ErrNone
             /\ kv' = kv /\ gc'.stale = gc.stale
             /\ \A l \in DOMAIN dlock' : dlock'[l] # GCProc
        /\ (gc.pc # "idle" /\ gc'.pc = "idle") =>
             /\ DOMAIN gc.allocated = {}
             /\ gc'.err = ErrNone]_vars
  /\ []((gc.pc = "idle" /\ gc.err # ErrNone) => gc.skipped = {})

\* a round skipped one master key after a failure, went on to mark another
\* one and returned a nil error
GCSkippedOneKey ==
  /\ gc.pc = "idle" /\ gc.round > 0 /\ gc.err = ErrNone
  /\ gc.skipped # {} /\ DOMAIN gc.prev # {}
  /\ DOMAIN gc.prev \cap gc.skipped = {}

\* the attempt of p to publish a new ID fails in this step: another local
\* writer holds the key, or the master key could not be created
NewIDAttemptFails(p) ==
  \/ proc[p].pc = "reserve" /\ proc'[p] = Failed(p, ErrOtherWriter)
  \/ proc[p].pc = "master" /\ proc'[p] = Failed(p, ErrMaster)

\* the unmasked ID the failing attempt had leased
LeasedByAttempt(p) == proc[p].unmaskedID

\* the refcount of k in the local table of n after the step
RefcountAfter(n, k) ==
  IF k \in DOMAIN localKeys'[n] THEN localKeys'[n][k].refcnt ELSE 0

\* C28 as stated: after a failed attempt to publish a new ID the local
\* table has no entry of the key, as before the attempt, the leased ID is
\* free in the pool again, and the store is unchanged.
FailedAttemptRestores ==
  [][\A p \in AllProcs :
       NewIDAttemptFails(p) =>
         /\ kv' = kv
         /\ proc[p].key \notin DOMAIN localKeys'[NodeOf(p)]
         /\ proc[p].pc = "master" =>
              /\ LeasedByAttempt(p) \in pool'[NodeOf(p)].free
              /\ LeasedByAttempt(p) \notin
                   pool'[NodeOf(p)].leased \cup pool'[NodeOf(p)].inuse
         /\ proc[p].pc = "reserve" => pool' = pool]_vars

\* C28, amended: after a failed attempt to publish a new ID the store is
\* unchanged, the reference the attempt took on the local table is dropped
\* (the entry is gone unless a local caller took a reference on it in the
\* meantime), and the leased ID is neither leased nor in use: it is free
\* again unless the watcher removed it from the pool during the attempt.
FailedAttemptReleases ==
  [][\A p \in AllProcs :
       NewIDAttemptFails(p) =>
         /\ kv' = kv
         /\ RefcountAfter(NodeOf(p), proc[p].key) =
              (IF proc[p].pc = "master" THEN Refcount(NodeOf(p), proc[p].key) - 1
                                        ELSE Refcount(NodeOf(p), proc[p].key))
         /\ \A k \in DOMAIN localKeys'[NodeOf(p)] :
              k # proc[p].key => /\ k \in DOMAIN localKeys[NodeOf(p)]
                                 /\ localKeys'[NodeOf(p)][k] = localKeys[NodeOf(p)][k]
         /\ proc[p].pc = "master" =>
              /\ LeasedByAttempt(p) \notin
                   pool'[NodeOf(p)].leased \cup pool'[NodeOf(p)].inuse
              /\ LeasedByAttempt(p) \in pool[NodeOf(p)].leased =>
                   LeasedByAttempt(p) \in pool'[NodeOf(p)].free
              /\ pool'[NodeOf(p)].free \ {LeasedByAttempt(p)} =
                   pool[NodeOf(p)].free \ {LeasedByAttempt(p)}
         /\ proc[p].pc = "reserve" => pool' = pool]_vars

\* an attempt failed to create its master key, and the ID it had leased is
\* free again while the caller retries
RetryAfterMasterConflict ==
  \E p \in AllProcs :
    /\ proc[p].pc = "lock" /\ proc[p].err = ErrMaster
    /\ proc[p].key \notin DOMAIN localKeys[NodeOf(p)]
    /\ \E u \in pool[NodeOf(p)].free :
         Exists(IdPath(BitOr(u, cfg.prefixMask)))

\* the slave key of the new ID of p cannot be written in this step
SlaveOfNewIDFails(p) ==
  proc[p].pc = "slave" /\ proc[p].isNew /\ proc'[p] = Failed(p, ErrSlaveNew)

\* the master keys left behind by attempts whose slave key was not written
Leaked == hist.leaked

\* C29: when the slave key of a new ID cannot be written the attempt
\* fails, its local reference is dropped, the ID is neither leased nor in
\* use, and the master key stays in the store; a master key left behind in
\* this way that nobody has claimed since is gone once two RunGC rounds
\* have passed over it.
LeakedMasterCollected ==
  /\ [][\A p \in AllProcs :
          SlaveOfNewIDFails(p) =>
            /\ kv' = kv
            /\ RefcountAfter(NodeOf(p), proc[p].key) =
                 Refcount(NodeOf(p), proc[p].key) - 1
            /\ proc[p].unmaskedID \notin
                 pool'[NodeOf(p)].leased \cup pool'[NodeOf(p)].inuse]_vars
  /\ [](\A m \in Leaked :
          (m \in DOMAIN hist.quiet /\ hist.quiet[m].n = 2) => ~Exists(m))

\* a master key was left behind by a failed slave write, and two rounds of
\* RunGC later it is gone
LeakedThenCollected ==
  \E m \in Leaked : m \in DOMAIN hist.quiet /\ hist.quiet[m].n = 2 /\ ~Exists(m)

\* the slave key of participant n for key k holds ID v after the step
SlaveHoldsAfter(n, k, v) ==
  /\ ValueKey(k, n) \in DOMAIN kv'
  /\ kv'[ValueKey(k, n)].data = FormatUint(v)

\* C30: an attempt that finds no ID of its key in the cache or the store
\* while the local table holds the key with ID v creates the master key
\* id/<v> = key if and only if the create call succeeds and id/<v> is
\* absent, then writes its slave key with v and returns (v, false); if the
\* master key cannot be created the attempt fails and the store is
\* unchanged.
RecoveryAfterDataLoss ==
  [][\A p \in AllProcs :
       /\ (proc[p].pc = "reserve" /\ proc'[p].pc = "recreate") =>
            /\ proc[p].value = NoID
            /\ proc'[p].value = lookupKey(localKeys[NodeOf(p)], proc[p].key)
            /\ proc'[p].value # NoID
            /\ kv' = kv /\ localKeys' = localKeys /\ pool' = pool
       /\ (proc[p].pc = "recreate" /\ proc'[p] # proc[p]) =>
            IF faults' = faults /\ ~Exists(IdPath(proc[p].value))
              THEN /\ proc'[p].pc = "slave" /\ ~proc'[p].isNew
                   /\ proc'[p].value = proc[p].value
                   /\ DOMAIN kv' = DOMAIN kv \cup {IdPath(proc[p].value)}
                   /\ kv'[IdPath(proc[p].value)].data = proc[p].key
                   /\ \A q \in DOMAIN kv : kv'[q] = kv[q]
                   /\ lockPath(proc[p].key) \in DOMAIN dlock
                   /\ dlock[lockPath(proc[p].key)] = p
              ELSE /\ proc'[p] = Failed(p, ErrMaster)
                   /\ kv' = kv
       /\ (proc[p].pc = "slave" /\ proc[p].recreated /\ proc'[p] # proc[p]) =>
            IF faults' = faults
              THEN /\ SlaveHoldsAfter(NodeOf(p), proc[p].key, proc[p].value)
                   /\ proc'[p].pc = "idle" /\ proc'[p].recreated
                   /\ proc'[p].ret = Ret("Allocate", proc[p].key, proc[p].value,
                                         FALSE, ErrNone, FALSE)
              ELSE /\ proc'[p] = Failed(p, ErrSlave)
                   /\ kv' = kv]_vars

\* after the store lost the key, a caller has re-created the master key of
\* the ID its participant holds, written the slave key and returned that ID
RecoveredMaster ==
  \E p \in AllProcs :
    /\ hist.ext > 0
    /\ proc[p].pc = "idle" /\ proc[p].recreated /\ proc[p].ret.op = "Allocate"
    /\ proc[p].ret.err = ErrNone /\ ~proc[p].ret.isNew
    /\ Exists(IdPath(proc[p].ret.id)) /\ kv[IdPath(proc[p].ret.id)].data = proc[p].ret.key
    /\ Exists(ValueKey(proc[p].ret.key, NodeOf(p)))
    /\ kv[ValueKey(proc[p].ret.key, NodeOf(p))].data = FormatUint(proc[p].ret.id)

\* the attempt of p has found ID proc[p].value of its key under the lock
FoundGlobalID(p) == proc[p].value # NoID /\ ~proc[p].isNew /\ ~proc[p].recreated

\* the master keys of the store after the step are those before it
MastersUnchanged ==
  /\ ListPrefixIn(kv', idPrefix) = MasterPaths
  /\ \A m \in MasterPaths : kv'[m] = kv[m]

\* C31: an attempt that finds ID v of its key under the lock takes a
\* reference on the local entry (k, v), writes its slave key with v and the
\* lease of its participant, an unchanged slave key being left alone,
\* creates no master key, leases no ID and returns (v, false).
ExistingIDReused ==
  [][\A p \in AllProcs :
       /\ (proc[p].pc = "reserve" /\ proc[p].value # NoID /\ proc'[p] # proc[p]) =>
            /\ proc[p].key \in DOMAIN localKeys'[NodeOf(p)]
            /\ localKeys'[NodeOf(p)][proc[p].key].val = proc[p].value
            /\ RefcountAfter(NodeOf(p), proc[p].key) =
                 Refcount(NodeOf(p), proc[p].key) + 1
            /\ kv' = kv /\ pool' = pool
            /\ proc'[p].pc = "slave" /\ proc'[p].value = proc[p].value
       /\ (proc[p].pc = "slave" /\ FoundGlobalID(p) /\ proc'[p] # proc[p]
             /\ faults' = faults) =>
            /\ SlaveHoldsAfter(NodeOf(p), proc[p].key, proc[p].value)
            /\ kv'[ValueKey(proc[p].key, NodeOf(p))].lease = SlaveLease(NodeOf(p))
            /\ (Exists(ValueKey(proc[p].key, NodeOf(p)))
                  /\ kv[ValueKey(proc[p].key, NodeOf(p))].data = FormatUint(proc[p].value))
                 => (kv' = kv /\ events' = events)
            /\ MastersUnchanged /\ pool' = pool
            /\ proc'[p].pc = "idle"
            /\ proc'[p].ret = Ret("Allocate", proc[p].key, proc[p].value,
                                  FALSE, ErrNone, FALSE)]_vars

\* the pool of n differs after the step at most in where ID u is
PoolChangedOnlyAt(n, u) ==
  /\ pool'[n].free \ {u} = pool[n].free \ {u}
  /\ pool'[n].leased \ {u} = pool[n].leased \ {u}
  /\ pool'[n].inuse \ {u} = pool[n].inuse \ {u}

\* C32: a newly selected ID is the leased pool ID ORed with prefixMask; it
\* is the ID in the master key, in the slave key and in the return of
\* Allocate, while the pool is told the unmasked ID: leased on selection,
\* in use once the master key exists, and free again after a failed attempt
\* unless the watcher took it out of the pool.
PrefixMaskHandling ==
  [][\A p \in AllProcs :
       /\ (proc[p].pc = "reserve" /\ proc'[p].pc = "master") =>
            /\ proc'[p].unmaskedID \in pool[NodeOf(p)].free
            /\ proc'[p].unmaskedID \in pool'[NodeOf(p)].leased
            /\ proc'[p].id = BitOr(proc'[p].unmaskedID, cfg.prefixMask)
            /\ PoolChangedOnlyAt(NodeOf(p), proc'[p].unmaskedID)
       /\ (proc[p].pc = "master" /\ proc'[p].pc = "slave") =>
            /\ IdPath(BitOr(proc[p].unmaskedID, cfg.prefixMask)) \in DOMAIN kv'
            /\ kv'[IdPath(BitOr(proc[p].unmaskedID, cfg.prefixMask))].data = proc[p].key
            /\ proc[p].unmaskedID \in pool[NodeOf(p)].leased =>
                 proc[p].unmaskedID \in pool'[NodeOf(p)].inuse
            /\ PoolChangedOnlyAt(NodeOf(p), proc[p].unmaskedID)
       /\ (proc[p].pc = "slave" /\ proc[p].isNew /\ proc'[p].pc = "idle"
             /\ proc'[p].ret.err = ErrNone) =>
            /\ proc'[p].ret.id = BitOr(proc[p].unmaskedID, cfg.prefixMask)
            /\ SlaveHoldsAfter(NodeOf(p), proc[p].key,
                               BitOr(proc[p].unmaskedID, cfg.prefixMask))
            /\ pool' = pool
       /\ (proc[p].pc \in {"master", "slave"} /\ proc[p].isNew = (proc[p].pc = "slave")
             /\ proc'[p] = Failed(p, IF proc[p].pc = "master" THEN ErrMaster
                                                            ELSE ErrSlaveNew)) =>
            /\ proc[p].unmaskedID \notin
                 pool'[NodeOf(p)].leased \cup pool'[NodeOf(p)].inuse
            /\ proc[p].unmaskedID \in pool[NodeOf(p)].leased \cup pool[NodeOf(p)].inuse
                 => proc[p].unmaskedID \in pool'[NodeOf(p)].free
            /\ PoolChangedOnlyAt(NodeOf(p), proc[p].unmaskedID)]_vars

\* under a prefix mask a caller whose first attempt failed after the master
\* key has been returned a new, masked ID, and its pool holds the unmasked
\* one in use
MaskedIDReturned ==
  \E p \in AllProcs, u \in cfg.min..cfg.max :
    /\ cfg.prefixMask # 0 /\ Leaked # {}
    /\ proc[p].pc = "idle" /\ proc[p].ret.err = ErrNone /\ proc[p].ret.isNew
    /\ proc[p].ret.id = BitOr(u, cfg.prefixMask) /\ proc[p].ret.id # u
    /\ u \in pool[NodeOf(p)].inuse
    /\ Exists(IdPath(proc[p].ret.id))

\* p is inside an attempt: between lockPath and the return of lockedAllocate
InAttempt(p) == proc[p].pc \notin {"idle", "lock"}

\* C33: an Allocate call starts an attempt only while fewer than
\* maxAllocAttempts have failed, and every failed attempt counts once; it
\* returns without error from the attempt that succeeds, with the error of
\* the last attempt once maxAllocAttempts have failed, and with the
\* cancellation error, instead of another attempt, when its context is
\* cancelled after a failed attempt; and every call returns.
BoundedRetry ==
  /\ [](\A p \in AllProcs :
          /\ proc[p].attempt <= maxAllocAttempts
          /\ InAttempt(p) => proc[p].attempt < maxAllocAttempts)
  /\ [][\A p \in AllProcs :
          /\ (proc[p].pc # "idle" /\ proc'[p].pc # "idle") =>
               /\ proc'[p].attempt \in {proc[p].attempt, proc[p].attempt + 1}
               /\ proc'[p].attempt = proc[p].attempt + 1 <=>
                    (proc'[p].pc = "lock" /\ proc'[p] # proc[p])
          /\ (InAttempt(p) /\ proc'[p].pc = "idle") =>
               proc[p].pc = "slave" /\ proc'[p].ret.err = ErrNone
          /\ (proc[p].pc = "lock" /\ proc'[p].pc = "idle") =>
               /\ proc[p].attempt > 0
               /\ proc'[p].ret.id = NoID /\ ~proc'[p].ret.isNew
               /\ \/ proc'[p].ret.err = ErrCancelled
                  \/ /\ proc[p].attempt = maxAllocAttempts
                     /\ proc'[p].ret.err = proc[p].err
                     /\ proc[p].err # ErrNone]_vars
  /\ \A p \in AllProcs : (proc[p].pc # "idle") ~> (proc[p].pc = "idle")

\* a call has returned the error of its last attempt after maxAllocAttempts
\* failures
GaveUpAfterMaxAttempts ==
  \E p \in AllProcs :
    /\ proc[p].pc = "idle" /\ proc[p].ret.op = "Allocate"
    /\ proc[p].ret.err = ErrMaster

\* node n holds key k as a verified local reference to id
VerifiedLocal(n, k, id) ==
  /\ alive[n] = "up"
  /\ k \in getVerifiedIDs(localKeys[n])
  /\ localKeys[n][k].val = id

\* the master key of id holds k and the slave key of node n for k holds id
Intact(n, k, id) ==
  /\ Exists(IdPath(id)) /\ kv[IdPath(id)].data = k
  /\ Exists(ValueKey(k, n)) /\ kv[ValueKey(k, n)].data = FormatUint(id)

\* C34: when the master key or the slave key of a verified local key of a
\* live participant is missing from the store, the local key sync is able
\* to run whatever distributed locks are held, one run of it leaves master
\* key id/<id> = key and slave key value/<key>/<suffix> = id in the store
\* and takes or frees no distributed lock, and the records are eventually
\* back unless the key is released first.
SyncHealsDeletions ==
  /\ [](\A n \in Nodes, k \in AllKeys :
          (/\ cache[n].listDone
           /\ \E id \in MinID..MaxID :
                VerifiedLocal(n, k, id) /\ ~Intact(n, k, id))
            => ENABLED SyncLocalKeys(n, k))
  /\ [][\A n \in Nodes, k \in AllKeys :
          SyncLocalKeys(n, k) =>
            /\ dlock' = dlock
            /\ \E id \in MinID..MaxID :
                 /\ VerifiedLocal(n, k, id)
                 /\ Exists(IdPath(id))' /\ kv'[IdPath(id)].data = k
                 /\ Exists(ValueKey(k, n))'
                 /\ kv'[ValueKey(k, n)].data = FormatUint(id)]_vars
  /\ \A n \in Nodes, k \in AllKeys, id \in MinID..MaxID :
       (VerifiedLocal(n, k, id) /\ ~Intact(n, k, id))
         ~> (Intact(n, k, id) \/ ~VerifiedLocal(n, k, id))

\* the slave key of the only participant that allocated was deleted from
\* outside and is back beside the master key
SlaveKeyHealed ==
  /\ hist.ext = 1
  /\ proc["p2"].ops = 0 /\ proc["p2"].pc = "idle"
  /\ proc["p1"].pc = "idle"
  /\ \A i \in 1..Len(events) : events[i].typ # "delete"
  /\ \E id \in MinID..MaxID :
       VerifiedLocal("n1", KeyA, id) /\ Intact("n1", KeyA, id)

\* the positions of lockedAllocate at which the caller holds the lock of
\* its key, and those at which it holds the mutex as well
HoldsLock == {"list", "reserve", "recreate", "master", "slave"}
HoldsMutex == {"recreate", "master", "slave"}

\* caller p waits for the distributed lock of its key
WaitsForLock(p) ==
  /\ proc[p].pc = "lock" /\ attemptsLeft(proc[p].attempt)
  /\ lockPath(proc[p].key) \in DOMAIN dlock

\* caller p waits for the mutex of its participant
WaitsForMutex(p) ==
  proc[p].pc = "reserve" /\ mutex[NodeOf(p)] # NoProc

Blocked(p) == WaitsForLock(p) \/ WaitsForMutex(p)

\* the next step of the call of p
lockedAllocateStep(p) ==
  \/ AllocLock(p)
  \/ AllocList(p)
  \/ AllocReserve(p)
  \/ AllocRecreate(p)
  \/ AllocMaster(p)
  \/ AllocSlave(p)

\* the next step of RunGC in progress
GCNextStep == GCLock \/ GCScan \/ GCDelete \/ GCReturn

\* C35: the mutex is taken only by a caller that already holds the
\* distributed lock of its key, a distributed lock is taken only by a
\* caller without the mutex, and Release touches no distributed lock; so
\* every lock and every mutex is held by a call in progress that is not
\* itself blocked or waits only for the mutex, a call that is not blocked
\* can take its next step, and whenever calls are in progress one of them
\* is not blocked.
NoLockInversion ==
  /\ [](/\ \A n \in Nodes :
           mutex[n] # NoProc =>
             /\ NodeOf(mutex[n]) = n
             /\ proc[mutex[n]].pc \in HoldsMutex
        /\ \A path \in DOMAIN dlock :
             \/ /\ dlock[path] = GCProc
                /\ gc.pc \in {"scan", "delete"} /\ path = lockPath(gc.key)
             \/ /\ dlock[path] \in AllProcs
                /\ proc[dlock[path]].pc \in HoldsLock
                /\ path = lockPath(proc[dlock[path]].key)
        /\ \A p \in AllProcs :
             proc[p].pc \in HoldsLock =>
               /\ lockPath(proc[p].key) \in DOMAIN dlock
               /\ dlock[lockPath(proc[p].key)] = p
        /\ \A p \in AllProcs :
             (proc[p].pc # "idle" /\ ~Blocked(p)) => (ENABLED lockedAllocateStep(p))
        /\ gc.pc # "idle" => (ENABLED GCNextStep)
        /\ (\E p \in AllProcs : proc[p].pc # "idle") =>
             (\E p \in AllProcs : proc[p].pc # "idle" /\ ~Blocked(p)))
  /\ [][/\ \A n \in Nodes :
           (mutex'[n] # mutex[n] /\ mutex'[n] # NoProc) =>
             /\ lockPath(proc[mutex'[n]].key) \in DOMAIN dlock
             /\ dlock[lockPath(proc[mutex'[n]].key)] = mutex'[n]
             /\ dlock' = dlock
        /\ \A path \in DOMAIN dlock' :
             path \notin DOMAIN dlock =>
               \A n \in Nodes : mutex[n] # dlock'[path]
        /\ \A p \in AllProcs, k \in AllKeys :
             Release(p, k) =>
               /\ dlock' = dlock /\ mutex' = mutex
               /\ \A path \in DOMAIN dlock : dlock[path] # p]_vars

\* a caller waits for the mutex, held by a caller of another key, while
\* RunGC holds the lock of a master key
MutexContendedBesideGC ==
  \E q, r \in AllProcs :
    /\ WaitsForMutex(q) /\ mutex[NodeOf(q)] = r
    /\ proc[r].key # proc[q].key
    /\ gc.pc \in {"scan", "delete"}

\* C36: on every participant the local key table holds one ID per key
\* string and the ID of an entry never changes, the entry of a key holds the
\* ID that every successful Allocate of the key returned to the callers that
\* still hold it, at the return and afterwards, and no entry has refcount 0.
LocalTableInvariant ==
  /\ [](\A n \in Nodes : \A k \in DOMAIN localKeys[n] :
          /\ localKeys[n][k].refcnt > 0
          /\ localKeys[n][k].val # NoID
          /\ \A p \in AllProcs :
               (NodeOf(p) = n /\ Held(p, k) > 0) =>
                 hist.first[p][k] = localKeys[n][k].val)
  /\ [][/\ \A n \in Nodes : \A k \in DOMAIN localKeys[n] :
            k \in DOMAIN localKeys'[n] => localKeys'[n][k].val = localKeys[n][k].val
        /\ \A r \in hist'.rets \ hist.rets :
            /\ r.key \in DOMAIN localKeys'[NodeOf(r.proc)]
            /\ localKeys'[NodeOf(r.proc)][r.key].val = r.id]_vars

\* the ID u of the pool of node n is held in use: the store has the master
\* key of the ID selected for it, or the cache or the local key table of
\* the node holds that ID
HeldInUse(n, u) ==
  LET id == BitOr(u, cfg.prefixMask) IN
  \/ Exists(IdPath(id))
  \/ id \in DOMAIN cache[n].idCache
  \/ lookupID(localKeys[n], id) # {}

\* the ID u is leased by an attempt in progress on node n
LeasedLocally(n, u) ==
  /\ u \in pool[n].leased
  /\ \E p \in AllProcs :
       NodeOf(p) = n /\ proc[p].pc = "master" /\ proc[p].unmaskedID = u

\* C37: the pool of every live participant holds as free every ID of
\* [min, max] that is neither held in use nor leased by an attempt in
\* progress on the participant.
PoolInvariant ==
  \A n \in Nodes : \A u \in cfg.min..cfg.max :
    (alive[n] = "up" /\ ~HeldInUse(n, u) /\ ~LeasedLocally(n, u))
      => u \in pool[n].free

\* the ports with a TCP policy one of whose rules names an L7 protocol
\* without a registered parser
UnknownParserPorts ==
  {policy.config[i].Port : i \in
     {x \in DOMAIN policy.config :
        /\ policy.config[x].Protocol = TCP
        /\ \E j \in DOMAIN policy.config[x].Rules :
             /\ l7NameOf(policy.config[x].Rules[j]) # ""
             /\ l7NameOf(policy.config[x].Rules[j]) \notin DOMAIN l7RuleParsers}}

\* C38: traffic on a port one of whose rules names an L7 protocol without
\* a registered parser is never matched, for any remote ID and payload,
\* whatever other port policies are installed.
UnknownParserDropsAll ==
  (policy.loaded /\ policy.asked # <<>> /\ policy.asked.port \in UnknownParserPorts)
    => ~policy.verdict

\* a rule set matches: it has no L7 rules or no rules at all, or one of its
\* rules allows the remote ID and has an L7 rule for the payload
RuleSetMatches(r, remoteId, l7) ==
  \/ \A i \in DOMAIN r.Rules : r.Rules[i].L7Rules = <<>>
  \/ r.Rules = <<>>
  \/ \E i \in DOMAIN r.Rules :
       /\ r.Rules[i].AllowedRemotes = {} \/ remoteId \in r.Rules[i].AllowedRemotes
       /\ \/ r.Rules[i].L7Rules = <<>>
          \/ \E j \in DOMAIN r.Rules[i].L7Rules : r.Rules[i].L7Rules[j] = l7

\* the rules installed for port pt match the traffic asked about
InstalledMatch(pt) ==
  /\ pt \in DOMAIN policy.installed
  /\ RuleSetMatches(policy.installed[pt], policy.asked.remoteId, policy.asked.l7)

Deleting == {r \in observer.routines : r.pc \in {"ciliumIPv4", "ciliumIPv6", "done"}}

\* no event is being handled and no deletion goroutine is still to act
ObserverQuiet ==
  /\ observer.handler = <<>>
  /\ \A r \in observer.routines : r.pc \in {"returned", "done"}

\* the deletion happens only after the delay and only when Exists said no
DeletedOnlyAfterDelay ==
  \A r \in observer.routines :
    r.pc \in {"NodeDeleted", "ciliumIPv4", "ciliumIPv6", "done"} =>
      /\ r.checkedAt >= r.start + NodeDeleteDelay
      /\ ~r.exists

\* a node updated within the delay of a deletion is not deleted by it
ReappearedNotDeleted ==
  \A r \in observer.routines :
    r.reappeared => r.pc \in {"sleep", "returned"}

\* a node whose last event is an update that followed a delete is still
\* known to the manager when everything has come to rest
UpdateAfterDeleteKeepsNode ==
  \A k \in ClusterNodes :
    (/\ ObserverQuiet
     /\ k \in observer.deleted
     /\ observer.lastEvent[k] = "update") => k \in observer.manager

========================================================================
